---- MODULE Spec2Model ----
(***************************************************************************)
(* A model of ptcmd's subcommand dispatch chain (src/ptcmd/command.py) and *)
(* of its argparse completion engine (src/ptcmd/completer.py).             *)
(*                                                                         *)
(* SpecDispatch  : Command.invoke_from_argv / invoke_from_ns / invoke_inner *)
(* SpecCompleter : ArgparseCompleter.get_completions / _get_completion_texts*)
(***************************************************************************)
EXTENDS Integers, Sequences, FiniteSets, TLC

VARIABLES
    \* ---- dispatch (command.py) ----
    dpc,        \* position of the dispatch: idle, parsing, ns_entry, loop, handler, returned, raised
    self_cmd,   \* the Command the dispatch was invoked on (self)
    ns,         \* the argparse Namespace handed to invoke_from_ns
    cmd_chain,  \* invoke_from_ns's local cmd_chain (the same list as ns.__cmd_chain__)
    ret,        \* invoke_from_ns's local ret
    running,    \* the handler that is executing, or None
    calls,      \* every handler invocation so far: [cmd, acc, args, kwargs, effect, state, ret]
    effects,    \* side effects handlers have performed on the world, in order
    exc,        \* the exception that reached the caller, or None
    result,     \* the value returned to the caller
    streams,    \* sys.stdin, sys.stdout, sys.stderr
    old_streams,\* invoke_from_argv's locals old_stdin, old_stdout, old_stderr
    parsed,     \* per grammar level, the values the full parse assigned at that level
    entry,      \* which entry point the caller used: argv or ns
    parse_end,  \* how parser.parse_args ended: ok, SystemExit, raised
    \* ---- completion engine (completer.py) ----
    cpc,        \* position of the completion request: idle, replay, done
    document,   \* the request: the completer's grammar and document.text_before_cursor
    rs,         \* the locals of the _get_completion_texts frame that is running
    hist,       \* what the replay loop did with each prefix token, in order
    completions,\* the Completion objects yielded to the caller, in order
    out_kind,   \* which generator produced them: flags, args or none
    cexc,       \* the exception get_completions raised, or None
    \* ---- requests served by one completer (completer.py, core.py) ----
    completer,  \* the ArgparseCompleter the requests are made on: its grammar fields
    requests,   \* per request: position, document, frame locals and what it returned
    \* ---- one BaseCmd instance (core.py) ----
    command_info, \* self.command_info in dict order: name, hidden, disabled
    cmdqueue,   \* self.cmdqueue
    lastcmd,    \* self.lastcmd
    stack,      \* the coroutine frames that are running, innermost last
    flight,     \* the value or exception on its way to the caller of the innermost frame
    called,     \* the call made on the instance from outside: its function, its line, the queue it found
    trace,      \* what the instance did so far, in order
    reads,      \* how many times input_line was awaited
    \* ---- the classes of core.py and their instances ----
    classes,    \* the classes defined so far, in order of definition
    __commands__, \* the set object BaseCmd.__commands__
    instances,  \* the instances constructed so far: class and command_info
    \* ---- the Command objects of command.py ----
    commands,   \* the Command objects created so far: cmd_name, _parent, parser
    decorators  \* the decorators add_subcommand has returned: self, name, subparser_action

dvars == <<dpc, self_cmd, ns, cmd_chain, ret, running, calls, effects, exc,
           result, streams, old_streams, parsed, entry, parse_end>>

cvars == <<cpc, document, rs, hist, completions, out_kind, cexc>>

rvars == <<completer, requests>>

bvars == <<command_info, cmdqueue, lastcmd, stack, flight, called, trace, reads>>

kvars == <<classes, __commands__, instances>>

tvars == <<commands, decorators>>

mvars == <<bvars, kvars, tvars>>

vars == <<dvars, cvars, rvars, mvars>>

None == "None"

(***************************************************************************)
(* The command tree.  Every Command holds its _parent (command.py:72);     *)
(* add_subcommand creates a child whose _parent is the command it was      *)
(* added to (command.py:127-134).                                          *)
(***************************************************************************)
Commands == {"root", "sub1", "sub2", "leaf", "other"}

ParentOf(c) ==
    CASE c = "root"  -> None
      [] c = "sub1"  -> "root"
      [] c = "sub2"  -> "root"
      [] c = "leaf"  -> "sub1"
      [] c = "other" -> None

RECURSIVE PathUp(_)
\* c, c._parent, c._parent._parent, ... up to the command without parent
PathUp(c) == IF ParentOf(c) = None THEN <<c>> ELSE <<c>> \o PathUp(ParentOf(c))

SeqRange(s) == {s[i] : i \in 1..Len(s)}

\* the commands reachable through c's parser: c and the subcommands below it
Subtree(c) == {d \in Commands : c \in SeqRange(PathUp(d))}

\* the grammar levels a parse by c's parser walks through to resolve r, outermost first
RECURSIVE LevelsUpTo(_, _)
LevelsUpTo(c, r) == IF r = c THEN <<c>> ELSE Append(LevelsUpTo(c, ParentOf(r)), r)

(***************************************************************************)
(* Handler signatures, as inspect.signature reports them to invoke_inner.  *)
(***************************************************************************)
POSITIONAL  == "POSITIONAL_OR_KEYWORD"
VAR_POSITIONAL == "VAR_POSITIONAL"
KEYWORD_ONLY == "KEYWORD_ONLY"
VAR_KEYWORD == "VAR_KEYWORD"

Param(n, k) == [name |-> n, kind |-> k]

Signature(c) ==
    CASE c = "root"  -> <<Param("x", POSITIONAL), Param("k", KEYWORD_ONLY)>>
      [] c = "sub1"  -> <<Param("x", POSITIONAL), Param("rest", VAR_POSITIONAL)>>
      [] c = "sub2"  -> <<Param("z", POSITIONAL)>>
      [] c = "leaf"  -> <<Param("k", KEYWORD_ONLY)>>
      [] c = "other" -> <<Param("w", POSITIONAL), Param("kw", VAR_KEYWORD)>>

ParamNames(c) == {Signature(c)[i].name : i \in 1..Len(Signature(c))}

KindOf(c, n) == Signature(c)[CHOOSE i \in 1..Len(Signature(c)) : Signature(c)[i].name = n].kind

(***************************************************************************)
(* The values a full parse can assign.  A plain parameter holds a string,  *)
(* a *args parameter a list of strings, a **kwargs parameter a dict.       *)
(***************************************************************************)
ScalarVals == {"a", "b"}
ListVals == {<<>>, <<"a", "b">>}
EmptyDict == [n \in {} |-> None]
DictVals == {EmptyDict, "extra" :> "a"}

ValuesOfKind(k) ==
    CASE k = POSITIONAL     -> ScalarVals
      [] k = KEYWORD_ONLY   -> ScalarVals
      [] k = VAR_POSITIONAL -> ListVals
      [] k = VAR_KEYWORD    -> DictVals

\* the commands whose parser was passed in by the caller (Command(parser=...),
\* command.py:63,74): such a parser need not define a dest for every parameter
CustomParser == {"other"}

RECURSIVE LevelValsFrom(_, _)
\* every assignment of values to the parameters sig[i..] of one grammar level
LevelValsFrom(c, i) ==
    IF i > Len(Signature(c)) THEN {EmptyDict}
    ELSE LET p == Signature(c)[i]
             rest == LevelValsFrom(c, i + 1)
             with == {(p.name :> v) @@ f : v \in ValuesOfKind(p.kind), f \in rest}
         IN  IF c \in CustomParser THEN with \cup rest ELSE with

LevelVals(c) == LevelValsFrom(c, 1)

Has(f, n) == n \in DOMAIN f

RECURSIVE MergeLevels(_, _)
\* argparse fills one flat Namespace: the subparser's namespace is copied over the
\* outer one attribute by attribute, so the innermost level's value of a name wins
MergeLevels(levels, lv) ==
    IF levels = <<>> THEN EmptyDict
    ELSE lv[levels[Len(levels)]] @@ MergeLevels(SubSeq(levels, 1, Len(levels) - 1), lv)

\* ns = parser.parse_args(argv) for c's parser, resolved to r with level values lv:
\* every parser sets the default __cmd_ins__ to its own Command (command.py:84)
ParseNs(c, r, lv) ==
    [cmd_ins |-> r, attrs |-> MergeLevels(LevelsUpTo(c, r), lv), cmd_result |-> "unset"]

RECURSIVE AllLevelVals(_)
\* every outcome of a successful parse through the given grammar levels
AllLevelVals(levels) ==
    IF levels = <<>> THEN {EmptyDict}
    ELSE {(levels[1] :> f) @@ g : f \in LevelVals(levels[1]), g \in AllLevelVals(Tail(levels))}

(***************************************************************************)
(* invoke_from_ns, command.py:169-174: the chain from the resolved command *)
(* up its _parent links, stopping at self or at a command without parent.  *)
(***************************************************************************)
RECURSIVE WalkParents(_, _, _)
WalkParents(cmd_ins, slf, chain) ==
    IF ParentOf(cmd_ins) # None /\ cmd_ins # slf
    THEN WalkParents(ParentOf(cmd_ins), slf, Append(chain, ParentOf(cmd_ins)))
    ELSE [last |-> cmd_ins, chain |-> chain]

\* cmd_ins = getattr(ns, "__cmd_ins__", self), command.py:169
ResolvedIns(n, slf) == IF n.cmd_ins = "absent" THEN slf ELSE n.cmd_ins

\* (mutant) the chain is the command dispatch was invoked on, alone
BuildChainOfSelf(n, slf) == WalkParents(slf, slf, <<slf>>)

BuildChain(n, slf) == WalkParents(ResolvedIns(n, slf), slf, <<ResolvedIns(n, slf)>>)

(***************************************************************************)
(* invoke_inner, command.py:197-209: the positional and keyword arguments  *)
(* read from the namespace, parameter by parameter.                        *)
(***************************************************************************)
\* getattr(ns, param_name) without default raises AttributeError when unset
InnerRaises(c, n) ==
    \E i \in 1..Len(Signature(c)) :
        /\ Signature(c)[i].kind \in {POSITIONAL, KEYWORD_ONLY}
        /\ ~Has(n.attrs, Signature(c)[i].name)

RECURSIVE InnerArgs(_, _, _)
InnerArgs(c, n, i) ==
    IF i > Len(Signature(c)) THEN <<>>
    ELSE LET p == Signature(c)[i]
             here == CASE p.kind = VAR_POSITIONAL ->
                             IF Has(n.attrs, p.name) THEN n.attrs[p.name] ELSE <<>>
                       [] p.kind = POSITIONAL -> <<n.attrs[p.name]>>
                       [] OTHER -> <<>>
         IN  here \o InnerArgs(c, n, i + 1)

RECURSIVE InnerKwargs(_, _, _)
\* later parameters overwrite earlier keys, as dict assignment and update do
InnerKwargs(c, n, i) ==
    IF i = 0 THEN EmptyDict
    ELSE LET p == Signature(c)[i]
             here == CASE p.kind = VAR_KEYWORD ->
                             IF Has(n.attrs, p.name) THEN n.attrs[p.name] ELSE EmptyDict
                       [] p.kind = KEYWORD_ONLY -> (p.name :> n.attrs[p.name])
                       [] OTHER -> EmptyDict
         IN  here @@ InnerKwargs(c, n, i - 1)

(***************************************************************************)
(* Dispatch: state and actions                                             *)
(***************************************************************************)
NoNs == [cmd_ins |-> "absent", attrs |-> EmptyDict, cmd_result |-> "unset"]

OrigStreams == [stdin |-> "sys.stdin", stdout |-> "sys.stdout", stderr |-> "sys.stderr"]

\* the streams of a caller that has replaced sys.stdout and sys.stderr itself (core.py:15
\* imports prompt_toolkit's StdoutProxy for that)
ProxyStreams == [stdin |-> "sys.stdin", stdout |-> "StdoutProxy", stderr |-> "StdoutProxy"]

\* the values sys.stdin, sys.stdout and sys.stderr can have when a dispatch is entered
EntryStreams == {OrigStreams, ProxyStreams}

\* the locals old_stdin, old_stdout, old_stderr before they are bound
NoStreams == [stdin |-> None, stdout |-> None, stderr |-> None]

\* command.py:158-159
CmdStreams == [stdin |-> "cmd.stdin", stdout |-> "cmd.raw_stdout", stderr |-> "cmd.raw_stdout"]

\* what a handler can return, and what it can raise
RetVals == {None, "r1", "r2"}
Raisable == {"ValueError", "KeyboardInterrupt"}

\* no completion request is made: the completer's state stays as constructed
CompleterIdle ==
    /\ cpc = "idle"
    /\ document = None
    /\ rs = None
    /\ hist = <<>>
    /\ completions = <<>>
    /\ out_kind = "none"
    /\ cexc = None

\* no completer is shared between requests
RequestsIdle ==
    /\ completer = None
    /\ requests = <<>>

\* no BaseCmd instance is in use
CmdIdle ==
    /\ command_info = <<>>
    /\ cmdqueue = <<>>
    /\ lastcmd = <<>>
    /\ stack = <<>>
    /\ flight = [kind |-> "none"]
    /\ called = [fn |-> "none", line |-> <<>>, queue |-> <<>>]
    /\ trace = <<>>
    /\ reads = 0

\* core.py has not been imported
ClassesIdle ==
    /\ classes = <<>>
    /\ __commands__ = {}
    /\ instances = <<>>

\* no Command has been created
TreeIdle ==
    /\ commands = <<>>
    /\ decorators = {}

InitDispatch ==
    /\ dpc = "idle"
    /\ self_cmd = None
    /\ ns = NoNs
    /\ cmd_chain = <<>>
    /\ ret = None
    /\ running = None
    /\ calls = <<>>
    /\ effects = <<>>
    /\ exc = None
    /\ result = "pending"
    /\ streams \in EntryStreams
    /\ old_streams = NoStreams
    /\ parsed = EmptyDict
    /\ entry = None
    /\ parse_end = None
    /\ CompleterIdle
    /\ CmdIdle
    /\ ClassesIdle
    /\ TreeIdle
    /\ RequestsIdle

\* invoke_from_argv up to the call of parser.parse_args, command.py:153-160
InvokeFromArgv(c) ==
    /\ dpc = "idle"
    /\ dpc' = "parsing"
    /\ self_cmd' = c
    /\ entry' = "argv"
    /\ old_streams' = streams
    /\ streams' = CmdStreams
    /\ UNCHANGED <<ns, cmd_chain, ret, running, calls, effects, exc, result, parsed, parse_end>>

\* the streams are set to the values the interpreter started with
RestoreStreamsDefault(old) == OrigStreams

\* the finally clause, command.py:163-166
RestoreStreams(old) == old

\* parse_args returns a namespace; the streams are restored and invoke_from_ns is
\* called, command.py:160,163-167
ParseReturns(r, lv) ==
    /\ dpc = "parsing"
    /\ ns' = ParseNs(self_cmd, r, lv)
    /\ parsed' = lv
    /\ streams' = RestoreStreams(old_streams)
    /\ UNCHANGED old_streams
    /\ dpc' = "ns_entry"
    /\ parse_end' = "ok"
    /\ UNCHANGED <<self_cmd, cmd_chain, ret, running, calls, effects, exc, result, entry>>

\* (mutant) invoke_from_argv without its except clause: SystemExit reaches the caller
OnSystemExitPropagates == [dpc |-> "raised", result |-> "pending", exc |-> "SystemExit"]

\* what invoke_from_argv does when parse_args raises SystemExit, command.py:161-166
OnSystemExit == [dpc |-> "returned", result |-> None, exc |-> None]

ParseSystemExit ==
    /\ dpc = "parsing"
    /\ dpc' = OnSystemExit.dpc
    /\ result' = OnSystemExit.result
    /\ exc' = OnSystemExit.exc
    /\ streams' = RestoreStreams(old_streams)
    /\ UNCHANGED old_streams
    /\ parse_end' = "SystemExit"
    /\ UNCHANGED <<self_cmd, ns, cmd_chain, ret, running, calls, effects, parsed, entry>>

\* any other exception of parse_args passes through the finally clause
ParseRaises(e) ==
    /\ dpc = "parsing"
    /\ dpc' = "raised"
    /\ exc' = e
    /\ streams' = RestoreStreams(old_streams)
    /\ UNCHANGED old_streams
    /\ parse_end' = "raised"
    /\ UNCHANGED <<self_cmd, ns, cmd_chain, ret, running, calls, effects, result, parsed, entry>>

\* a caller that holds a namespace calls invoke_from_ns itself: the namespace comes
\* from the parser of some command p, or carries no __cmd_ins__ at all
CallInvokeFromNs(c, p, r, lv, withIns) ==
    /\ dpc = "idle"
    /\ self_cmd' = c
    /\ entry' = "ns"
    /\ ns' = IF withIns THEN ParseNs(p, r, lv)
                        ELSE [ParseNs(p, r, lv) EXCEPT !.cmd_ins = "absent"]
    /\ parsed' = lv
    /\ dpc' = "ns_entry"
    /\ UNCHANGED <<cmd_chain, ret, running, calls, effects, exc, result, streams, old_streams, parse_end>>

\* invoke_from_ns, command.py:169-177: build the chain, check it ends at self
InvokeFromNsEnter ==
    /\ dpc = "ns_entry"
    /\ LET b == BuildChain(ns, self_cmd) IN
         IF b.last = self_cmd
         THEN /\ cmd_chain' = b.chain
              /\ ret' = None
              /\ dpc' = "loop"
              /\ exc' = exc
         ELSE /\ dpc' = "raised"
              /\ exc' = "AssertionError"
              /\ UNCHANGED <<cmd_chain, ret>>
    /\ UNCHANGED <<self_cmd, ns, running, calls, effects, result, streams, old_streams, parsed, entry, parse_end>>

\* (mutant) cmd_chain.pop(0): the chain is consumed from the resolved command outwards
PopChainFront(chain) == [cmd_ins |-> chain[1], chain |-> Tail(chain)]

\* cmd_ins = cmd_chain.pop(), command.py:179
PopChain(chain) == [cmd_ins |-> chain[Len(chain)], chain |-> SubSeq(chain, 1, Len(chain) - 1)]

\* (mutant) the accumulator is not written before the call
SeedAccumulatorStale(n, r) == n

\* ns.__cmd_result__ = ret, command.py:180
SeedAccumulator(n, r) == [n EXCEPT !.cmd_result = r]

\* one turn of the loop up to the call of the handler, command.py:178-181,197-209
InvokeNext ==
    /\ dpc = "loop"
    /\ cmd_chain # <<>>
    /\ LET p == PopChain(cmd_chain)
           n == SeedAccumulator(ns, ret)
       IN  /\ cmd_chain' = p.chain
           /\ ns' = n
           /\ IF InnerRaises(p.cmd_ins, n)
              THEN /\ dpc' = "raised"
                   /\ exc' = "AttributeError"
                   /\ UNCHANGED <<running, calls>>
              ELSE /\ dpc' = "handler"
                   /\ running' = p.cmd_ins
                   /\ calls' = Append(calls,
                         [cmd |-> p.cmd_ins, acc |-> n.cmd_result,
                          args |-> InnerArgs(p.cmd_ins, n, 1),
                          kwargs |-> InnerKwargs(p.cmd_ins, n, Len(Signature(p.cmd_ins))),
                          effect |-> FALSE, state |-> "running", ret |-> "pending"])
                   /\ exc' = exc
    /\ UNCHANGED <<self_cmd, ret, effects, result, streams, old_streams, parsed, entry, parse_end>>

\* the running handler changes the world (the BaseCmd instance, a file, ...)
HandlerEffect ==
    /\ dpc = "handler"
    /\ ~calls[Len(calls)].effect
    /\ effects' = Append(effects, running)
    /\ calls' = [calls EXCEPT ![Len(calls)].effect = TRUE]
    /\ UNCHANGED <<dpc, self_cmd, ns, cmd_chain, ret, running, exc, result, streams, old_streams, parsed,
                   entry, parse_end>>

\* ret = cmd_ins.invoke_inner(cmd, ns), command.py:181
HandlerReturn(v) ==
    /\ dpc = "handler"
    /\ ret' = v
    /\ running' = None
    /\ dpc' = "loop"
    /\ calls' = [calls EXCEPT ![Len(calls)].state = "returned", ![Len(calls)].ret = v]
    /\ UNCHANGED <<self_cmd, ns, cmd_chain, effects, exc, result, streams, old_streams, parsed, entry, parse_end>>

\* (mutant) the loop swallows the exception and goes on to the next handler
OnHandlerRaiseSwallow(e, eff) == [dpc |-> "loop", exc |-> None, effects |-> eff]

\* what invoke_from_ns does when the running handler raises e: nothing catches it
OnHandlerRaise(e, eff) == [dpc |-> "raised", exc |-> e, effects |-> eff]

HandlerRaise(e) ==
    /\ dpc = "handler"
    /\ LET o == OnHandlerRaise(e, effects) IN
           /\ dpc' = o.dpc
           /\ exc' = o.exc
           /\ effects' = o.effects
    /\ running' = None
    /\ calls' = [calls EXCEPT ![Len(calls)].state = "raised", ![Len(calls)].ret = e]
    /\ UNCHANGED <<self_cmd, ns, cmd_chain, ret, result, streams, old_streams, parsed, entry, parse_end>>

\* return ret, command.py:182
InvokeFromNsReturn ==
    /\ dpc = "loop"
    /\ cmd_chain = <<>>
    /\ result' = ret
    /\ dpc' = "returned"
    /\ UNCHANGED <<self_cmd, ns, cmd_chain, ret, running, calls, effects, exc, streams, old_streams, parsed,
                   entry, parse_end>>

NextDispatch ==
    /\ UNCHANGED cvars
    /\ UNCHANGED rvars
    /\ UNCHANGED mvars
    /\ \/ \E c \in Commands : InvokeFromArgv(c)
       \/ /\ dpc = "parsing"
          /\ \E r \in Subtree(self_cmd) :
                \E lv \in AllLevelVals(LevelsUpTo(self_cmd, r)) : ParseReturns(r, lv)
       \/ ParseSystemExit
       \/ \E e \in {"TypeError"} : ParseRaises(e)
       \/ /\ dpc = "idle"
          /\ \E c, p \in Commands : \E r \in Subtree(p) : \E w \in BOOLEAN :
                \E lv \in AllLevelVals(LevelsUpTo(p, r)) : CallInvokeFromNs(c, p, r, lv, w)
       \/ InvokeFromNsEnter
       \/ InvokeNext
       \/ HandlerEffect
       \/ \E v \in RetVals : HandlerReturn(v)
       \/ \E e \in Raisable : HandlerRaise(e)
       \/ InvokeFromNsReturn

SpecDispatch == InitDispatch /\ [][NextDispatch]_vars

(***************************************************************************)
(* Dispatch: properties                                                    *)
(***************************************************************************)
\* the dispatch got past the chain construction of invoke_from_ns
ChainResolved ==
    /\ dpc \in {"loop", "handler", "returned", "raised"}
    /\ parse_end \notin {"SystemExit", "raised"}
    /\ self_cmd \in SeqRange(PathUp(ResolvedIns(ns, self_cmd)))

\* root, sub1, ..., subN: from the command dispatch was invoked on down to the
\* resolved command
DispatchChain == LevelsUpTo(self_cmd, ResolvedIns(ns, self_cmd))

Invoked == [i \in 1..Len(calls) |-> calls[i].cmd]

\* C1: the handlers of a dispatch chain are invoked outermost first, each exactly
\* once, and no handler starts before the previous one has returned.
C1_OutermostFirst ==
    /\ ~ChainResolved => calls = <<>>
    /\ ChainResolved =>
          /\ Len(calls) <= Len(DispatchChain)
          /\ Invoked = SubSeq(DispatchChain, 1, Len(calls))
          /\ \A i \in 1..(Len(calls) - 1) : calls[i].state = "returned"
          /\ running # None =>
                calls[Len(calls)].state = "running" /\ calls[Len(calls)].cmd = running
          /\ dpc = "returned" => Invoked = DispatchChain

C1_Witness ==
    /\ dpc = "returned"
    /\ entry = "argv"
    /\ Invoked = <<"root", "sub1", "leaf">>

\* C2: the accumulator is None for the first handler, the previous handler's return
\* value for every later one, and the dispatch returns the innermost handler's value.
C2_Accumulator ==
    /\ \A i \in 1..Len(calls) :
          calls[i].acc = IF i = 1 THEN None ELSE calls[i - 1].ret
    /\ (dpc = "returned" /\ parse_end # "SystemExit") =>
          /\ calls # <<>>
          /\ calls[Len(calls)].cmd = ResolvedIns(ns, self_cmd)
          /\ result = calls[Len(calls)].ret

C2_Witness ==
    /\ dpc = "returned"
    /\ Len(calls) = 3
    /\ calls[1].ret = "r1" /\ calls[2].acc = "r1"
    /\ calls[2].ret = "r2" /\ calls[3].acc = "r2"
    /\ calls[3].ret = "r1" /\ result = "r1"

RECURSIVE EffectsOf(_)
\* the side effects the handlers invoked so far have performed, in order
EffectsOf(cs) ==
    IF cs = <<>> THEN <<>>
    ELSE (IF cs[1].effect THEN <<cs[1].cmd>> ELSE <<>>) \o EffectsOf(Tail(cs))

\* C3: when handler k raises, no later handler is invoked, the raised condition
\* reaches the caller as it is, and earlier side effects are left in place.
C3_RaiseAborts ==
    \A i \in 1..Len(calls) :
        calls[i].state = "raised" =>
            /\ i = Len(calls)
            /\ dpc = "raised"
            /\ exc = calls[i].ret
            /\ running = None
            /\ result = "pending"
            /\ effects = EffectsOf(calls)

C3_Witness ==
    /\ dpc = "raised"
    /\ Len(calls) = 2
    /\ calls[2].state = "raised"
    /\ exc = "ValueError"
    /\ ChainResolved /\ Len(DispatchChain) = 3
    /\ effects = <<"root", "sub1">>

\* C4: when the parse ends with SystemExit, dispatch is not entered: no handler is
\* invoked and invoke_from_argv returns None.
C4_ParseExitShortCircuits ==
    parse_end = "SystemExit" =>
        /\ dpc = "returned"
        /\ result = None
        /\ exc = None
        /\ calls = <<>>
        /\ effects = <<>>
        /\ cmd_chain = <<>>
        /\ ns = NoNs

C4_Witness ==
    /\ parse_end = "SystemExit"
    /\ dpc = "returned"
    /\ self_cmd = "root"

\* the positional parameters of c, in declaration order
RECURSIVE PositionalNames(_, _)
PositionalNames(c, i) ==
    IF i > Len(Signature(c)) THEN <<>>
    ELSE (IF Signature(c)[i].kind = POSITIONAL THEN <<Signature(c)[i].name>> ELSE <<>>)
            \o PositionalNames(c, i + 1)

KeywordOnlyNames(c) ==
    {Signature(c)[i].name : i \in {j \in 1..Len(Signature(c)) : Signature(c)[j].kind = KEYWORD_ONLY}}

\* what the call func(*args, **kwargs) binds to parameter n of the handler
Received(call, n) ==
    LET c == call.cmd
        pos == PositionalNames(c, 1)
        k == KindOf(c, n)
    IN  CASE k = POSITIONAL -> call.args[CHOOSE i \in 1..Len(pos) : pos[i] = n]
          [] k = VAR_POSITIONAL -> SubSeq(call.args, Len(pos) + 1, Len(call.args))
          [] k = KEYWORD_ONLY -> call.kwargs[n]
          [] k = VAR_KEYWORD ->
                [m \in (DOMAIN call.kwargs) \ KeywordOnlyNames(c) |-> call.kwargs[m]]

\* C5: every handler receives, for each of its parameters, the value parsed at its
\* own grammar level, also when two levels declare a parameter of the same name.
C5_OwnLevelValues ==
    entry = "argv" =>
        \A i \in 1..Len(calls) :
            \A n \in ParamNames(calls[i].cmd) :
                Has(parsed[calls[i].cmd], n) =>
                    Received(calls[i], n) = parsed[calls[i].cmd][n]


(***************************************************************************)
(* The completion engine (completer.py).                                   *)
(*                                                                         *)
(* A token is a sequence of one-character strings, so that startswith,     *)
(* len and the tokenizer are computed on characters as the code does.      *)
(***************************************************************************)
SUPPRESS == "==SUPPRESS=="
REMAINDER == "..."
PARSER == "A..."
OPTIONAL == "?"
ZERO_OR_MORE == "*"
ONE_OR_MORE == "+"

\* an argparse.Action as the completer reads it: its class (kind), option_strings, dest,
\* nargs (None, one of the argparse constants, or a decimal integer), choices (with
\* has_choices FALSE for choices=None), help, and for a _SubParsersAction the parsers
\* its choices map to (sub[k] is the parser of choices[k])
Action(kind, option_strings, dest, nargs, has_choices, choices, help, sub) ==
    [kind |-> kind, option_strings |-> option_strings, dest |-> dest, nargs |-> nargs,
     has_choices |-> has_choices, choices |-> choices, help |-> help, sub |-> sub]

\* the ArgumentParser objects a completer is built on, by name
Grammars == {"simple", "root", "rem", "odd", "flags", "dup"}

Parser(g) ==
    CASE g = "simple" ->
        [prog |-> "simple", allow_abbrev |-> TRUE, prefix_chars |-> {"-"}, actions |-> <<
            Action("store", <<<<"-", "a">>, <<"-", "-", "a", "l">>>>, "al", "None", FALSE, <<>>, "Alpha", <<>>),
            Action("store", <<<<"-", "-", "c", "h">>>>, "ch", "None", TRUE, <<<<"o", "1">>, <<"o", "2">>>>, None, <<>>),
            Action("store_true", <<<<"-", "-", "f", "l">>>>, "fl", "0", FALSE, <<>>, None, <<>>),
            Action("store", <<>>, "pos", "None", TRUE, <<<<"f", "1">>, <<"f", "2">>>>, "Pos", <<>>),
            Action("store", <<>>, "opt", "?", FALSE, <<>>, None, <<>>)
        >>]
      [] g = "root" ->
        [prog |-> "root", allow_abbrev |-> TRUE, prefix_chars |-> {"-"}, actions |-> <<
            Action("store_true", <<<<"-", "-", "c", "v">>>>, "cv", "0", FALSE, <<>>, "Verbose", <<>>),
            Action("store", <<<<"-", "-", "r", "e", "s", "t">>>>, "rest", "...", FALSE, <<>>, None, <<>>),
            Action("subparsers", <<>>, "==SUPPRESS==", "A...", TRUE, <<<<"c", "1">>, <<"c", "2">>>>, None, <<"c1", "c2">>)
        >>]
      [] g = "c1" ->
        [prog |-> "c1", allow_abbrev |-> TRUE, prefix_chars |-> {"-"}, actions |-> <<
            Action("help", <<<<"-", "h">>, <<"-", "-", "h", "e", "l", "p">>>>, "help", "0", FALSE, <<>>, "show this help message and exit", <<>>),
            Action("store", <<<<"-", "-", "c", "o">>>>, "co", "None", FALSE, <<>>, "C1 opt", <<>>),
            Action("store", <<>>, "arg", "None", FALSE, <<>>, "C1 arg", <<>>)
        >>]
      [] g = "c2" ->
        [prog |-> "c2", allow_abbrev |-> TRUE, prefix_chars |-> {"-"}, actions |-> <<
            Action("store", <<<<"-", "-", "c", "o">>>>, "co", "None", FALSE, <<>>, "C2 opt", <<>>),
            Action("store_true", <<<<"-", "-", "c", "v">>>>, "cv", "0", FALSE, <<>>, "C2 verbose", <<>>),
            Action("store", <<>>, "arg", "None", TRUE, <<<<"a">>, <<"b">>>>, "C2 arg", <<>>)
        >>]
      [] g = "rem" ->
        [prog |-> "rem", allow_abbrev |-> TRUE, prefix_chars |-> {"-"}, actions |-> <<
            Action("append", <<<<"-", "-", "x">>>>, "x", "None", TRUE, <<<<"a">>, <<"b">>>>, "Extra", <<>>),
            Action("store", <<<<"-", "-", "h", "i", "d">>>>, "hid", "None", FALSE, <<>>, SUPPRESS, <<>>),
            Action("store", <<>>, "p", "None", FALSE, <<>>, None, <<>>),
            Action("store", <<>>, "rest", "...", FALSE, <<>>, None, <<>>)
        >>]
      [] g = "odd" ->
        [prog |-> "odd", allow_abbrev |-> TRUE, prefix_chars |-> {"-"}, actions |-> <<
            Action("store", <<<<"-", "-", "p">>>>, "p", "A...", FALSE, <<>>, None, <<>>),
            Action("store", <<<<"-", "-", "n">>>>, "n", "2", TRUE, <<<<"x">>, <<"y">>>>, "Pair", <<>>),
            Action("store", <<>>, "q", "+", FALSE, <<>>, None, <<>>)
        >>]
      [] g = "dup" ->
        [prog |-> "dup", allow_abbrev |-> TRUE, prefix_chars |-> {"-"}, actions |-> <<
            Action("store", <<<<"-", "-", "m">>>>, "v", "None", TRUE, <<<<"a">>, <<"b">>>>, None, <<>>),
            Action("store", <<>>, "v", "+", TRUE, <<<<"a">>, <<"b">>>>, "Vals", <<>>)
        >>]
      [] g = "flags" ->
        [prog |-> "flags", allow_abbrev |-> TRUE, prefix_chars |-> {"-"}, actions |-> <<
            Action("count", <<<<"-", "v">>, <<"-", "-", "v", "e", "r", "b">>>>, "verb", "0", FALSE, <<>>, "Verbose", <<>>),
            Action("store", <<<<"-", "-", "o", "u", "t">>>>, "out", "None", FALSE, <<>>, None, <<>>),
            Action("store_true", <<<<"-", "-", "d", "r", "y">>>>, "dry", "0", FALSE, <<>>, "Dry run", <<>>),
            Action("store_true", <<<<"-", "-", "d", "b", "g">>>>, "dbg", "0", FALSE, <<>>, SUPPRESS, <<>>)
        >>]

Vocabulary(g) ==
    CASE g = "simple" -> {<<"-", "a">>, <<"-", "-", "c", "h">>, <<"-", "-", "f", "l">>, <<"o", "1">>, <<"f", "1">>, <<"-", "-">>, <<"-", "-", "a">>, <<"-">>}
      [] g = "root" -> {<<"-", "-", "c", "v">>, <<"-", "-", "r", "e", "s", "t">>, <<"-", "-">>, <<"c", "1">>, <<"c", "2">>, <<"a">>, <<"-", "-", "c">>}
      [] g = "rem" -> {<<"-", "-", "x">>, <<"-", "-", "h", "i", "d">>, <<"a">>, <<"-", "-">>, <<"-">>, <<"-", "-", "h">>}
      [] g = "odd" -> {<<"-", "-", "p">>, <<"-", "-", "n">>, <<"x">>, <<"-">>, <<"\"", "x">>, <<"'", "x">>}
      [] g = "dup" -> {<<"-", "-", "m">>, <<"a">>, <<"b">>}
      [] g = "flags" -> {<<"-", "v">>, <<"-", "-", "o", "u", "t">>, <<"-", "-", "d", "r", "y">>, <<"x">>, <<"-", "-">>, <<"-">>}

\* str.startswith
StartsWith(s, p) == Len(p) <= Len(s) /\ SubSeq(s, 1, Len(p)) = p

\* x in list
InSeq(x, s) == \E k \in DOMAIN s : s[k] = x

\* ArgparseCompleter.__init__, completer.py:83-87 : self._flags, in declaration order,
\* each with the index of its action in parser._actions
RECURSIVE FlagsFrom(_, _)
FlagsFrom(actions, ai) ==
    IF ai > Len(actions) THEN <<>>
    ELSE [k \in 1..Len(actions[ai].option_strings) |->
             [flag |-> actions[ai].option_strings[k], action |-> ai]]
         \o FlagsFrom(actions, ai + 1)

\* self._positional_actions, completer.py:88-89
RECURSIVE PositionalsFrom(_, _)
PositionalsFrom(actions, ai) ==
    IF ai > Len(actions) THEN <<>>
    ELSE (IF actions[ai].option_strings = <<>> THEN <<ai>> ELSE <<>>)
         \o PositionalsFrom(actions, ai + 1)

\* self._subcommand_action, completer.py:90-91 (0 for None)
SubcommandOf(actions) ==
    LET subs == {ai \in DOMAIN actions :
                    actions[ai].option_strings = <<>> /\ actions[ai].kind = "subparsers"}
    IN  IF subs = {} THEN 0 ELSE CHOOSE ai \in subs : \A o \in subs : o <= ai

\* ArgparseCompleter.__init__, completer.py:70-91
ArgparseCompleterOf(parser) ==
    [parser |-> parser,
     flags |-> FlagsFrom(parser.actions, 1),
     positional_actions |-> PositionalsFrom(parser.actions, 1),
     subcommand_action |-> SubcommandOf(parser.actions)]

\* the completer of the parser named g
ArgparseCompleter(g) == ArgparseCompleterOf(Parser(g))

\* self._flag_to_action[token], or 0 when the token is not a key
FlagToAction(self, token) ==
    LET hits == {k \in DOMAIN self.flags : self.flags[k].flag = token}
    IN  IF hits = {} THEN 0 ELSE self.flags[CHOOSE k \in hits : TRUE].action

\* isinstance(action, (_AppendAction, _AppendConstAction, _CountAction)), completer.py:189
Repeatable(kind) == kind \in {"append", "append_const", "count"}

Digits == {"0", "1", "2", "3", "4", "5", "6", "7", "8", "9"}

\* argparse's _negative_number_matcher, '^-\d+$|^-\d*\.\d+$'
NegativeNumber(token) ==
    /\ Len(token) >= 2
    /\ token[1] = "-"
    /\ \/ \A k \in 2..Len(token) : token[k] \in Digits
       \/ \E d \in 2..(Len(token) - 1) :
             /\ token[d] = "."
             /\ \A k \in (2..Len(token)) \ {d} : token[k] \in Digits

\* parser._has_negative_number_optionals
HasNegativeNumberOptionals(self) ==
    \E k \in DOMAIN self.flags : NegativeNumber(self.flags[k].flag)

\* _looks_like_flag, completer.py:289-301
LooksLikeFlag(self, token) ==
    IF Len(token) < 1 THEN FALSE
    ELSE IF token[1] \notin self.parser.prefix_chars THEN FALSE
    ELSE IF NegativeNumber(token) /\ ~HasNegativeNumberOptionals(self) THEN FALSE
    ELSE IF InSeq(" ", token) THEN FALSE
    ELSE TRUE

\* _single_prefix_char, completer.py:303-305
SinglePrefixChar(self, token) == Len(token) = 1 /\ token[1] \in self.parser.prefix_chars

\* int(nargs) for the nargs that are integers
IntNargs == [n \in {"0", "1", "2", "3"} |->
                CASE n = "0" -> 0 [] n = "1" -> 1 [] n = "2" -> 2 [] n = "3" -> 3]

\* no _ArgumentState (None)
NoArgState == [action |-> 0, count |-> 0, is_remainder |-> FALSE,
               min_kind |-> "int", min |-> 0, max_kind |-> "int", max |-> 0]

IsSet(state) == state.action # 0

\* an _ArgumentState of action ai with the given min and max
RangeState(ai, is_remainder, min_kind, min, max_kind, max) ==
    [action |-> ai, count |-> 0, is_remainder |-> is_remainder,
     min_kind |-> min_kind, min |-> min, max_kind |-> max_kind, max |-> max]

\* _ArgumentState.__init__, completer.py:320-339. min_kind/max_kind tell what Python type
\* min and max have: int, inf (float('inf')) or str (nargs itself, for argparse.PARSER)
ArgumentStateOf(ai, nargs) ==
    IF nargs = None THEN RangeState(ai, FALSE, "int", 1, "int", 1)
    ELSE IF nargs = OPTIONAL THEN RangeState(ai, FALSE, "int", 0, "int", 1)
    ELSE IF nargs \in {ZERO_OR_MORE, REMAINDER}
         THEN RangeState(ai, nargs = REMAINDER, "int", 0, "inf", 0)
    ELSE IF nargs = ONE_OR_MORE THEN RangeState(ai, FALSE, "int", 1, "inf", 0)
    ELSE IF nargs \in DOMAIN IntNargs
         THEN RangeState(ai, FALSE, "int", IntNargs[nargs], "int", IntNargs[nargs])
    ELSE RangeState(ai, FALSE, "str", 0, "str", 0)

ArgumentState(self, ai) == ArgumentStateOf(ai, self.parser.actions[ai].nargs)

\* (mutant) the minimum of the active flag slot is not looked at
ShortOfMinIgnored(state) == FALSE

\* flag_arg_state and isinstance(flag_arg_state.min, int) and count < min
ShortOfMin(state) == IsSet(state) /\ state.min_kind = "int" /\ state.count < state.min

\* isinstance(state.max, (float, int)) and state.count >= state.max
ReachedMax(state) == state.max_kind = "int" /\ state.count >= state.max

\* consumed_arg_values.get(dest, [])
ConsumedOf(consumed, dest) == IF dest \in DOMAIN consumed THEN consumed[dest] ELSE <<>>

\* _consume_argument, completer.py:307-316 : the count of the state, and the values kept
\* under the action's dest
ConsumeCount(state) == [state EXCEPT !.count = @ + 1]
ConsumeValueAt(dest, token, consumed) ==
    (dest :> Append(ConsumedOf(consumed, dest), token)) @@ consumed
ConsumeValue(self, state, token, consumed) ==
    ConsumeValueAt(self.parser.actions[state.action].dest, token, consumed)

(***************************************************************************)
(* get_completions: the tokenizer, completer.py:99-123                     *)
(***************************************************************************)
DQUOTE == "\""
SQUOTE == "'"
Quotes == {DQUOTE, SQUOTE}

\* shlex.split(text, posix=False): whitespace_split, no comment characters. In state " "
\* a quote opens a quoted token that keeps its quotes and ends right at the closing
\* quote; inside a word (state "a") a quote is an ordinary character. ok is FALSE for
\* ValueError("No closing quotation").
RECURSIVE ShlexRead(_, _, _, _, _)
ShlexRead(text, i, state, token, acc) ==
    IF i > Len(text)
    THEN IF state \in Quotes THEN [ok |-> FALSE, tokens |-> <<>>]
         ELSE [ok |-> TRUE, tokens |-> IF token = <<>> THEN acc ELSE Append(acc, token)]
    ELSE LET c == text[i]
         IN  IF state = " "
             THEN IF c = " " THEN ShlexRead(text, i + 1, " ", <<>>, acc)
                  ELSE IF c \in Quotes THEN ShlexRead(text, i + 1, c, <<c>>, acc)
                  ELSE ShlexRead(text, i + 1, "a", <<c>>, acc)
             ELSE IF state \in Quotes
             THEN IF c = state
                  THEN ShlexRead(text, i + 1, " ", <<>>, Append(acc, Append(token, c)))
                  ELSE ShlexRead(text, i + 1, state, Append(token, c), acc)
             ELSE IF c = " " THEN ShlexRead(text, i + 1, " ", <<>>, Append(acc, token))
                  ELSE ShlexRead(text, i + 1, "a", Append(token, c), acc)

ShlexSplit(text) == ShlexRead(text, 1, " ", <<>>, <<>>)

\* text.split()
RECURSIVE WhitespaceSplit(_, _, _, _)
WhitespaceSplit(text, i, token, acc) ==
    IF i > Len(text) THEN (IF token = <<>> THEN acc ELSE Append(acc, token))
    ELSE IF text[i] = " "
         THEN WhitespaceSplit(text, i + 1, <<>>, IF token = <<>> THEN acc ELSE Append(acc, token))
         ELSE WhitespaceSplit(text, i + 1, Append(token, text[i]), acc)

\* completer.py:100-110 : the first of text, text + '"', text + "'" that shlex accepts
SecondRetry(text, with_squote) ==
    IF with_squote.ok THEN with_squote.tokens ELSE WhitespaceSplit(text, 1, <<>>, <<>>)
FirstRetry(text, with_dquote) ==
    IF with_dquote.ok THEN with_dquote.tokens
    ELSE SecondRetry(text, ShlexSplit(Append(text, SQUOTE)))
FirstTry(text, as_is) ==
    IF as_is.ok THEN as_is.tokens ELSE FirstRetry(text, ShlexSplit(Append(text, DQUOTE)))
SplitWithRetries(text) == FirstTry(text, ShlexSplit(text))

\* completer.py:113-117
EndsWithSpace(text, tokens) ==
    IF text # <<>> /\ text[Len(text)] = " " THEN Append(tokens, <<>>) ELSE tokens
Tokenize(text) == EndsWithSpace(text, SplitWithRetries(text))

\* completer.py:120
TextToComplete(tokens) == IF tokens # <<>> THEN tokens[Len(tokens)] ELSE <<>>

(***************************************************************************)
(* _get_completion_texts: the replay of the prefix tokens,                 *)
(* completer.py:145-230                                                    *)
(***************************************************************************)
\* the locals of a fresh _get_completion_texts frame of completer self,
\* completer.py:145-150. g names self's parser; i is the index of the next prefix token;
\* level counts the completers the request has gone through; status is run, return or
\* raise
InitReplay(self, text, tokens, start_position, level) ==
    [g |-> self.parser.prog, text |-> text, toks |-> tokens,
     start_position |-> start_position,
     i |-> 1, level |-> level, status |-> "run",
     remaining_positionals |-> self.positional_actions,
     skip_remaining_flags |-> FALSE,
     pos_arg_state |-> NoArgState,
     flag_arg_state |-> NoArgState,
     matched_flags |-> <<>>,
     consumed_arg_values |-> [d \in {} |-> <<>>]]

\* the action a flag token resolves to, completer.py:181-186 (0 for None)
ResolveFlag(self, token) ==
    IF FlagToAction(self, token) # 0 THEN FlagToAction(self, token)
    ELSE IF self.parser.allow_abbrev
    THEN LET candidates == {k \in DOMAIN self.flags : StartsWith(self.flags[k].flag, token)}
         IN  IF Cardinality(candidates) = 1
             THEN self.flags[CHOOSE k \in candidates : TRUE].action
             ELSE 0
    ELSE 0

\* what one iteration did: the frame after it, how the token was taken, the action it
\* went to (0 for none) and whether a remainder slot became active in it
Outcome(s, how, action, activated) ==
    [s |-> s, how |-> how, action |-> action, activated |-> activated]

\* (mutant) the nested completer is given the subcommand name too
DelegateWithName(s, sub) ==
    InitReplay(ArgparseCompleter(sub), s.text, SubSeq(s.toks, s.i, Len(s.toks)),
               s.start_position, s.level + 1)

\* completer.py:211-216 : a fresh completer on the nested parser replays the tokens
\* after the subcommand name
Delegate(s, sub) ==
    InitReplay(ArgparseCompleter(sub), s.text, SubSeq(s.toks, s.i + 1, Len(s.toks)),
               s.start_position, s.level + 1)

\* (mutant) a remainder flag leaves the later flags enabled
SkipAfterFlagOff(new) == FALSE

\* completer.py:197
SkipAfterFlag(new) == new.is_remainder

\* (mutant) the end-of-flags literal leaves skip_remaining_flags as it is
SkipAfterEndOfFlagsKeep(s) == s.skip_remaining_flags

\* completer.py:170
SkipAfterEndOfFlags(s) == TRUE

\* (mutant) a resolved flag is never remembered
FlagSeenForgotten(next, a) == [next EXCEPT !.flag_arg_state = NoArgState]

\* completer.py:189-192 : a resolved flag that is not repeatable is remembered
FlagSeen(next, a) ==
    IF Repeatable(a.kind) THEN [next EXCEPT !.flag_arg_state = NoArgState]
    ELSE [next EXCEPT !.flag_arg_state = NoArgState,
                      !.matched_flags = @ \o a.option_strings,
                      !.consumed_arg_values = (a.dest :> <<>>) @@ @]

\* completer.py:194-197 : the flag's slot becomes active if it takes values
FlagActivated(s, ai, seen, new) ==
    IF new.max_kind = "str"
    THEN Outcome([seen EXCEPT !.i = s.i, !.status = "raise"], "raise", ai, FALSE)
    ELSE IF new.max_kind = "inf" \/ new.max > 0
    THEN Outcome([seen EXCEPT !.flag_arg_state = new,
                              !.skip_remaining_flags = SkipAfterFlag(new)],
                 "flag", ai, new.is_remainder)
    ELSE Outcome(seen, "flag", ai, FALSE)

\* completer.py:178-197
FlagResolved(self, s, next, ai) ==
    IF ai = 0
    THEN Outcome([next EXCEPT !.flag_arg_state = NoArgState], "flag_unresolved", 0, FALSE)
    ELSE FlagActivated(s, ai, FlagSeen(next, self.parser.actions[ai]), ArgumentState(self, ai))

\* completer.py:173-197 : a token that looks like a flag while flags are enabled
ReplayFlag(self, s, token, next) ==
    IF ShortOfMin(s.flag_arg_state)
    THEN Outcome([s EXCEPT !.status = "return"], "abort", s.flag_arg_state.action, FALSE)
    ELSE FlagResolved(self, s, next, ResolveFlag(self, token))

\* the positional state pos takes the token, and a slot that reaches its max does not
\* look at the slot that follows it
PositionalValueNoLookahead(self, token, next, pos, remaining) ==
    IF ~IsSet(pos)
    THEN Outcome(next, "ignored", 0, FALSE)
    ELSE LET rec == [next EXCEPT
                       !.remaining_positionals = remaining,
                       !.pos_arg_state = ConsumeCount(pos),
                       !.consumed_arg_values = ConsumeValue(self, pos, token, @)]
         IN  IF pos.is_remainder
             THEN Outcome([rec EXCEPT !.skip_remaining_flags = TRUE],
                          "pos_value", pos.action, TRUE)
             ELSE IF ReachedMax(ConsumeCount(pos))
             THEN Outcome([rec EXCEPT !.pos_arg_state = NoArgState],
                          "pos_value", pos.action, FALSE)
             ELSE Outcome(rec, "pos_value", pos.action, FALSE)

\* completer.py:221-230 : the token is a value of the positional state pos
PositionalValue(self, token, next, pos, remaining) ==
    IF ~IsSet(pos)
    THEN Outcome(next, "ignored", 0, FALSE)
    ELSE LET rec == [next EXCEPT
                       !.remaining_positionals = remaining,
                       !.pos_arg_state = ConsumeCount(pos),
                       !.consumed_arg_values = ConsumeValue(self, pos, token, @)]
         IN  IF pos.is_remainder
             THEN Outcome([rec EXCEPT !.skip_remaining_flags = TRUE],
                          "pos_value", pos.action, TRUE)
             ELSE IF ReachedMax(ConsumeCount(pos))
             THEN Outcome([rec EXCEPT
                             !.pos_arg_state = NoArgState,
                             !.skip_remaining_flags =
                                 IF remaining # <<>> /\
                                    self.parser.actions[Head(remaining)].nargs = REMAINDER
                                 THEN TRUE ELSE @],
                          "pos_value", pos.action, FALSE)
             ELSE Outcome(rec, "pos_value", pos.action, FALSE)

\* (mutant) an unknown subcommand name is passed over and the replay goes on
ReplaySubcommandPassOver(s, token, a) ==
    LET hits == {k \in DOMAIN a.choices : a.choices[k] = token}
    IN  IF hits # {}
        THEN Outcome(Delegate(s, a.sub[CHOOSE k \in hits : TRUE]), "delegate",
                     s.remaining_positionals[1], FALSE)
        ELSE Outcome([s EXCEPT !.i = s.i + 1,
                               !.remaining_positionals = Tail(s.remaining_positionals)],
                     "abort", s.remaining_positionals[1], FALSE)

\* completer.py:208-217 : the token has reached the dispatch slot
ReplaySubcommand(s, token, a) ==
    LET hits == {k \in DOMAIN a.choices : a.choices[k] = token}
    IN  IF hits # {}
        THEN Outcome(Delegate(s, a.sub[CHOOSE k \in hits : TRUE]), "delegate",
                     s.remaining_positionals[1], FALSE)
        ELSE Outcome([s EXCEPT !.status = "return"], "abort",
                     s.remaining_positionals[1], FALSE)

\* completer.py:205-230 : a token that goes to the positionals
ReplayPositional(self, s, token, next) ==
    IF ~IsSet(s.pos_arg_state) /\ s.remaining_positionals # <<>>
    THEN IF Head(s.remaining_positionals) = self.subcommand_action
         THEN ReplaySubcommand(s, token, self.parser.actions[self.subcommand_action])
         ELSE PositionalValue(self, token, next,
                              ArgumentState(self, Head(s.remaining_positionals)),
                              Tail(s.remaining_positionals))
    ELSE PositionalValue(self, token, next, s.pos_arg_state, s.remaining_positionals)

\* the active flag takes the value and stays active whatever its count
FlagValueKept(self, s, token, next) ==
    Outcome([next EXCEPT
               !.flag_arg_state = ConsumeCount(@),
               !.consumed_arg_values = ConsumeValue(self, s.flag_arg_state, token, @)],
            "flag_value", s.flag_arg_state.action, FALSE)

\* completer.py:199-203 : the token is a value of the active flag
FlagValue(self, s, token, next) ==
    Outcome([next EXCEPT
               !.flag_arg_state = IF ReachedMax(ConsumeCount(@)) THEN NoArgState
                                  ELSE ConsumeCount(@),
               !.consumed_arg_values = ConsumeValue(self, s.flag_arg_state, token, @)],
            "flag_value", s.flag_arg_state.action, FALSE)

\* completer.py:154-163 : an active remainder slot takes the token
RemainderToken(self, s, token, next) ==
    IF IsSet(s.pos_arg_state) /\ s.pos_arg_state.is_remainder
    THEN Outcome([next EXCEPT
                    !.pos_arg_state = ConsumeCount(@),
                    !.consumed_arg_values = ConsumeValue(self, s.pos_arg_state, token, @)],
                 "pos_remainder_value", s.pos_arg_state.action, FALSE)
    ELSE IF token = <<"-", "-">>
    THEN Outcome([next EXCEPT !.flag_arg_state = NoArgState],
                 "flag_remainder_end", s.flag_arg_state.action, FALSE)
    ELSE Outcome([next EXCEPT
                    !.flag_arg_state = ConsumeCount(@),
                    !.consumed_arg_values = ConsumeValue(self, s.flag_arg_state, token, @)],
                 "flag_remainder_value", s.flag_arg_state.action, FALSE)

\* completer.py:165-171 : a bare '--' while flags are enabled
EndOfFlags(s, next) ==
    IF ShortOfMin(s.flag_arg_state)
    THEN Outcome([s EXCEPT !.status = "return"], "abort", s.flag_arg_state.action, FALSE)
    ELSE Outcome([next EXCEPT !.flag_arg_state = NoArgState,
                              !.skip_remaining_flags = SkipAfterEndOfFlags(s)],
                 "end_of_flags", 0, FALSE)

\* an iteration that gives a value to the active positional slot before the flag slot
ReplayTokenPositionalFirst(self, s, token, next) ==
    IF \/ IsSet(s.pos_arg_state) /\ s.pos_arg_state.is_remainder
       \/ IsSet(s.flag_arg_state) /\ s.flag_arg_state.is_remainder
    THEN RemainderToken(self, s, token, next)
    ELSE IF token = <<"-", "-">> /\ ~s.skip_remaining_flags
    THEN EndOfFlags(s, next)
    ELSE IF LooksLikeFlag(self, token) /\ ~s.skip_remaining_flags
    THEN ReplayFlag(self, s, token, next)
    ELSE IF IsSet(s.pos_arg_state)
    THEN ReplayPositional(self, s, token, next)
    ELSE IF IsSet(s.flag_arg_state)
    THEN FlagValue(self, s, token, next)
    ELSE ReplayPositional(self, s, token, next)

\* one iteration of the loop over tokens[:-1], completer.py:153-230
ReplayTokenAt(self, s, token, next) ==
    IF \/ IsSet(s.pos_arg_state) /\ s.pos_arg_state.is_remainder
       \/ IsSet(s.flag_arg_state) /\ s.flag_arg_state.is_remainder
    THEN RemainderToken(self, s, token, next)
    ELSE IF token = <<"-", "-">> /\ ~s.skip_remaining_flags
    THEN EndOfFlags(s, next)
    ELSE IF LooksLikeFlag(self, token) /\ ~s.skip_remaining_flags
    THEN ReplayFlag(self, s, token, next)
    ELSE IF IsSet(s.flag_arg_state)
    THEN FlagValue(self, s, token, next)
    ELSE ReplayPositional(self, s, token, next)

ReplayToken(self, s) == ReplayTokenAt(self, s, s.toks[s.i], [s EXCEPT !.i = @ + 1])

(***************************************************************************)
(* _get_completion_texts: completing the last token, completer.py:232-287  *)
(***************************************************************************)
\* prompt_toolkit's Completion(text, start_position, display, display_meta). The
\* annotation display_meta is kept as the pair it is formatted from: dest is None for a
\* flag candidate, help is None where the code passes no help
Completion(text, start_position, dest, help) ==
    [text |-> text, start_position |-> start_position, display |-> text,
     display_meta |-> [dest |-> dest, help |-> help]]

\* action.help if action.help else None
HelpOrNone(help) == IF help = "" THEN None ELSE help

\* the Completion of each kept flag
FlagsYielded(self, keep, start_position) ==
    [k \in DOMAIN keep |->
        Completion(keep[k].flag, start_position, None,
                   HelpOrNone(self.parser.actions[keep[k].action].help))]

\* (mutant) _get_flag_completions without the test of matched_flags
FlagCompletionsAll(self, text, matched_flags, start_position) ==
    FlagsYielded(self,
                 SelectSeq(self.flags, LAMBDA f :
                    /\ self.parser.actions[f.action].help # SUPPRESS
                    /\ StartsWith(f.flag, text)),
                 start_position)

\* _get_flag_completions, completer.py:255-267
FlagCompletions(self, text, matched_flags, start_position) ==
    FlagsYielded(self,
                 SelectSeq(self.flags, LAMBDA f :
                    /\ ~InSeq(f.flag, matched_flags)
                    /\ self.parser.actions[f.action].help # SUPPRESS
                    /\ StartsWith(f.flag, text)),
                 start_position)

\* the Completion of each kept choice of action a
ChoicesYielded(a, keep, start_position) ==
    [k \in DOMAIN keep |-> Completion(keep[k], start_position, a.dest, HelpOrNone(a.help))]

\* (mutant) a slot without choices offers the partial token itself
ChoiceCompletionsEcho(a, text, used_values, start_position) ==
    IF a.has_choices
    THEN ChoicesYielded(a,
                        SelectSeq(a.choices, LAMBDA choice :
                            StartsWith(choice, text) /\ ~InSeq(choice, used_values)),
                        start_position)
    ELSE <<Completion(text, start_position, a.dest, HelpOrNone(a.help))>>

\* completer.py:277-287
ChoiceCompletions(a, text, used_values, start_position) ==
    IF a.has_choices
    THEN ChoicesYielded(a,
                        SelectSeq(a.choices, LAMBDA choice :
                            StartsWith(choice, text) /\ ~InSeq(choice, used_values)),
                        start_position)
    ELSE <<>>

\* _get_arg_completions, completer.py:269-287
ArgCompletions(self, text, arg_state, consumed_arg_values, start_position) ==
    ChoiceCompletions(self.parser.actions[arg_state.action], text,
                      ConsumedOf(consumed_arg_values,
                                 self.parser.actions[arg_state.action].dest),
                      start_position)

Yielded(items, kind) == [items |-> items, kind |-> kind]

\* completer.py:244-250 : pos is the positional state the last token goes to
CompletePositional(self, s, pos) ==
    IF IsSet(pos)
    THEN Yielded(ArgCompletions(self, s.text, pos, s.consumed_arg_values, s.start_position),
                 "args")
    ELSE Yielded(<<>>, "none")

\* completer.py:233-238 and 252-253 : the flags are offered
CompleteFlag(self, s) ==
    Yielded(FlagCompletions(self, s.text, s.matched_flags, s.start_position), "flags")

\* (mutant) the positional completed is the last one left
LastPositional(remaining_positionals) == remaining_positionals[Len(remaining_positionals)]

\* completer.py:246 : remaining_positionals.popleft()
NextPositional(remaining_positionals) == Head(remaining_positionals)

\* (mutant) the flags are the fallback only for a bare prefix character
FallsBackOnPrefixChar(self, s) ==
    ~s.skip_remaining_flags /\ SinglePrefixChar(self, s.text)

\* completer.py:252 : with nothing else to complete the flags are offered
FallsBackToFlags(self, s) ==
    ~s.skip_remaining_flags /\
        (SinglePrefixChar(self, s.text) \/ s.remaining_positionals = <<>>)

\* completer.py:232-253, run once the loop over the prefix tokens has ended
CompleteLast(self, s) ==
    IF LooksLikeFlag(self, s.text) /\ ~s.skip_remaining_flags
    THEN IF ShortOfMin(s.flag_arg_state) THEN Yielded(<<>>, "none")
         ELSE CompleteFlag(self, s)
    ELSE IF IsSet(s.flag_arg_state)
    THEN Yielded(ArgCompletions(self, s.text, s.flag_arg_state, s.consumed_arg_values,
                                s.start_position), "args")
    ELSE IF IsSet(s.pos_arg_state)
    THEN CompletePositional(self, s, s.pos_arg_state)
    ELSE IF s.remaining_positionals # <<>>
    THEN CompletePositional(self, s,
                            ArgumentState(self, NextPositional(s.remaining_positionals)))
    ELSE IF FallsBackToFlags(self, s)
    THEN CompleteFlag(self, s)
    ELSE Yielded(<<>>, "none")

\* what a run of _get_completion_texts gave its caller
Ended(y, exc_type) == [items |-> y.items, kind |-> y.kind, exc |-> exc_type]

\* a whole run of _get_completion_texts from frame s: what it yields, or the exception
RECURSIVE RunFrame(_)
RunFrame(s) ==
    IF s.status = "return" THEN Ended(Yielded(<<>>, "none"), None)
    ELSE IF s.status = "raise" THEN Ended(Yielded(<<>>, "none"), "TypeError")
    ELSE IF s.i <= Len(s.toks) - 1 THEN RunFrame(ReplayToken(ArgparseCompleter(s.g), s).s)
    ELSE Ended(CompleteLast(ArgparseCompleter(s.g), s), None)

\* ArgparseCompleter(parser)._get_completion_texts(text, ..., tokens, start_position) on
\* a fresh completer
FreshRun(g, text, tokens, start_position) ==
    RunFrame(InitReplay(ArgparseCompleter(g), text, tokens, start_position, 0))

(***************************************************************************)
(* The completion request as a state machine                               *)
(***************************************************************************)
\* the longest line, in words
MaxWords == 4

\* words joined by single spaces
RECURSIVE Join(_)
Join(words) ==
    IF words = <<>> THEN <<>>
    ELSE IF Len(words) = 1 THEN words[1]
    ELSE words[1] \o <<" ">> \o Join(Tail(words))

\* the texts before the cursor a request is made with: up to MaxWords words of the
\* grammar's vocabulary, with or without a trailing space
Lines(g) ==
    LET wordLists == UNION {[1..n -> Vocabulary(g)] : n \in 0..MaxWords}
    IN  {Join(w) : w \in wordLists} \cup {Append(Join(w), " ") : w \in wordLists}

\* no dispatch is under way
DispatchIdle ==
    /\ dpc = "idle"
    /\ self_cmd = None
    /\ ns = NoNs
    /\ cmd_chain = <<>>
    /\ ret = None
    /\ running = None
    /\ calls = <<>>
    /\ effects = <<>>
    /\ exc = None
    /\ result = "pending"
    /\ streams = OrigStreams
    /\ old_streams = NoStreams
    /\ parsed = EmptyDict
    /\ entry = None
    /\ parse_end = None

InitCompleter ==
    /\ dpc = "idle"
    /\ self_cmd = None
    /\ ns = NoNs
    /\ cmd_chain = <<>>
    /\ ret = None
    /\ running = None
    /\ calls = <<>>
    /\ effects = <<>>
    /\ exc = None
    /\ result = "pending"
    /\ streams = OrigStreams
    /\ old_streams = NoStreams
    /\ parsed = EmptyDict
    /\ entry = None
    /\ parse_end = None
    /\ CompleterIdle
    /\ RequestsIdle
    /\ CmdIdle
    /\ ClassesIdle
    /\ TreeIdle

\* completer.py:119-133 : the call of _get_completion_texts with the tokens of the text
CallGetCompletionTexts(g, text, tokens) ==
    /\ cpc' = "replay"
    /\ document' = [g |-> g, text |-> text]
    /\ rs' = InitReplay(ArgparseCompleter(g), TextToComplete(tokens), tokens,
                        0 - Len(TextToComplete(tokens)), 0)
    /\ UNCHANGED <<hist, completions, out_kind, cexc>>

\* get_completions up to the call of _get_completion_texts, completer.py:93-133
GetCompletions(g, text) ==
    /\ cpc = "idle"
    /\ CallGetCompletionTexts(g, text, Tokenize(text))

\* the frame and the record of the step after an iteration with outcome o
Iterated(o) ==
    /\ rs' = o.s
    /\ hist' = Append(hist, [token |-> rs.toks[rs.i], how |-> o.how, g |-> rs.g,
                             level |-> rs.level, action |-> o.action,
                             activated |-> o.activated])
    /\ cpc' = IF o.s.status = "run" THEN "replay" ELSE "done"
    /\ cexc' = IF o.s.status = "raise" THEN "TypeError" ELSE cexc
    /\ UNCHANGED <<document, completions, out_kind>>

\* one iteration of the loop over the prefix tokens, completer.py:153-230
ReplayStep ==
    /\ cpc = "replay"
    /\ rs.i <= Len(rs.toks) - 1
    /\ Iterated(ReplayToken(ArgparseCompleter(rs.g), rs))

\* the caller receives what the last step yields
Yield(y) ==
    /\ completions' = y.items
    /\ out_kind' = y.kind
    /\ cpc' = "done"
    /\ UNCHANGED <<document, rs, hist, cexc>>

\* the completion of the last token, completer.py:232-253
CompleteLastToken ==
    /\ cpc = "replay"
    /\ rs.i > Len(rs.toks) - 1
    /\ Yield(CompleteLast(ArgparseCompleter(rs.g), rs))

NextCompleter ==
    /\ UNCHANGED dvars
    /\ UNCHANGED rvars
    /\ UNCHANGED mvars
    /\ \/ /\ cpc = "idle"
          /\ \E g \in Grammars : \E text \in Lines(g) : GetCompletions(g, text)
       \/ ReplayStep
       \/ CompleteLastToken

SpecCompleter == InitCompleter /\ [][NextCompleter]_vars

\* a request has ended
Done == cpc = "done"

(***************************************************************************)
(* Completion engine: properties                                           *)
(***************************************************************************)
\* the replay steps of the request so far that handed the line to a nested completer
Delegations == {k \in DOMAIN hist : hist[k].how = "delegate"}

\* the first of them: it is the step of the root completer, whose steps are numbered
\* as the tokens of the line are
FirstDelegation == CHOOSE k \in Delegations : \A o \in Delegations : k <= o

\* the parser the dispatch table of grammar g maps the subcommand name to
NestedGrammar(g, name) ==
    LET a == Parser(g).actions[SubcommandOf(Parser(g).actions)]
    IN  a.sub[CHOOSE k \in DOMAIN a.choices : a.choices[k] = name]

\* the tokens of the line after its k-th token
TokensAfter(k) == SubSeq(Tokenize(document.text), k + 1, Len(Tokenize(document.text)))

\* a candidate is made of a flag alias or of a choice of grammar g, with that slot's
\* annotation
CandidateOf(g, c) ==
    \E ai \in DOMAIN Parser(g).actions :
        LET a == Parser(g).actions[ai]
        IN  \/ /\ InSeq(c.text, a.option_strings)
               /\ c.display_meta = [dest |-> None, help |-> HelpOrNone(a.help)]
            \/ /\ a.has_choices /\ InSeq(c.text, a.choices)
               /\ c.display_meta = [dest |-> a.dest, help |-> HelpOrNone(a.help)]

\* C6: when a prefix token reaches the dispatch slot and equals a key of the dispatch
\* table, the request ends as a fresh run of the engine on the nested grammar with only
\* the tokens after the subcommand name ends: same candidates in the same order, same
\* outcome; and every candidate is made from the nested grammar, never from the root's
C6_DelegationIsFreshRun ==
    (Done /\ Delegations # {}) =>
        LET k == FirstDelegation
            nested == NestedGrammar(document.g, hist[k].token)
            rest == TokensAfter(k)
            fresh == FreshRun(nested, TextToComplete(rest), rest, 0 - Len(TextToComplete(rest)))
        IN  /\ completions = fresh.items
            /\ cexc = fresh.exc
            /\ \A i \in DOMAIN completions : CandidateOf(nested, completions[i])

\* a root flag that the nested grammar also declares was seen before the subcommand
\* name, and the nested completer still offers its own flags
C6_Witness ==
    /\ Done
    /\ Delegations # {}
    /\ \E j \in 1..(FirstDelegation - 1) :
          /\ hist[j].how = "flag"
          /\ \E i \in DOMAIN completions :
                InSeq(completions[i].text, Parser(hist[j].g).actions[hist[j].action].option_strings)
    /\ out_kind = "flags"

\* C7: get_completions never raises, whatever the grammar and the line
C7_NeverRaises == cexc = None

\* the ways a prefix token is consumed as a value by a remainder slot that was active
RemainderValue == {"pos_remainder_value", "flag_remainder_value"}

\* the ways a prefix token is interpreted as a flag
TakenAsFlag == {"flag", "flag_unresolved"}

\* the ways a prefix token is taken when it goes to the positionals, completer.py:205-230
TakenAsPositional == {"pos_value", "pos_remainder_value", "ignored", "abort"}

\* a flag alias is offered for the partial token
FlagOffered == out_kind = "flags"

C9_LiteralOnlyRestOfLine ==
    \A k \in DOMAIN hist :
        hist[k].how = "end_of_flags" =>
            /\ \A j \in DOMAIN hist :
                  (j > k /\ LooksLikeFlag(ArgparseCompleter(hist[j].g), hist[j].token))
                      => hist[j].how \in TakenAsPositional
            /\ ~FlagOffered

\* C9 (amended): the same, for the tokens handled by the grammar that saw the '--', and
\* for the partial token when that grammar completes it
C9_LiteralOnly ==
    \A k \in DOMAIN hist :
        hist[k].how = "end_of_flags" =>
            /\ \A j \in DOMAIN hist :
                  (j > k /\ hist[j].level = hist[k].level
                         /\ LooksLikeFlag(ArgparseCompleter(hist[j].g), hist[j].token))
                      => hist[j].how \in TakenAsPositional
            /\ (Done /\ rs.level = hist[k].level) => ~FlagOffered

\* after a '--', a token that begins with the flag prefix (a second '--' too) was taken
\* as a positional value by the same grammar, and the partial token looks like a flag
C9_Witness ==
    /\ Done
    /\ LooksLikeFlag(ArgparseCompleter(rs.g), rs.text)
    /\ \E k \in DOMAIN hist :
          /\ hist[k].how = "end_of_flags"
          /\ \E j \in DOMAIN hist :
                /\ j > k
                /\ hist[j].level = hist[k].level
                /\ hist[j].token = <<"-", "-">>
                /\ hist[j].how = "pos_value"

\* the flag slots of the completing grammar that are not repeatable and that a prefix
\* token handled by that grammar resolved to
SeenOnce ==
    {hist[k].action : k \in {i \in DOMAIN hist :
        /\ hist[i].level = rs.level
        /\ hist[i].how = "flag"
        /\ ~Repeatable(Parser(rs.g).actions[hist[i].action].kind)}}

\* the candidates C10 describes: the aliases in declared order that start with the
\* partial token and belong to no slot of SeenOnce, each with its slot's help
FlagCandidates(hidden) ==
    LET keep == SelectSeq(ArgparseCompleter(rs.g).flags, LAMBDA f :
                    /\ StartsWith(f.flag, rs.text)
                    /\ f.action \notin SeenOnce
                    /\ Parser(rs.g).actions[f.action].help \notin hidden)
    IN  [i \in DOMAIN keep |->
            [text |-> keep[i].flag, start_position |-> 0 - Len(rs.text),
             display |-> keep[i].flag,
             display_meta |-> [dest |-> None,
                               help |-> HelpOrNone(Parser(rs.g).actions[keep[i].action].help)]]]

\* the replay reached the partial token, which looks like a flag, and flags are not
\* disabled
FlagPartial ==
    Done /\ rs.status = "run" /\ LooksLikeFlag(ArgparseCompleter(rs.g), rs.text) /\ ~rs.skip_remaining_flags

\* C10 as stated: when the partial token looks like a flag and flags are not disabled,
\* the candidates are exactly the aliases that start with it and belong to no
\* non-repeatable flag seen in the prefix, in declared order, each with its help
C10_FlagCandidatesAlways == FlagPartial => completions = FlagCandidates({})

\* C10 (amended): the same when, besides, no active flag slot is short of its minimum
\* arity; and the aliases of slots whose help is suppressed are not candidates
C10_FlagCandidates ==
    (FlagPartial /\ ~ShortOfMin(rs.flag_arg_state))
        => completions = FlagCandidates({SUPPRESS})

\* a non-repeatable flag was seen and its aliases, which start with the partial token,
\* are left out of a non-empty answer
C10_Witness ==
    /\ FlagPartial
    /\ ~ShortOfMin(rs.flag_arg_state)
    /\ completions # <<>>
    /\ \E ai \in SeenOnce :
          \E k \in DOMAIN Parser(rs.g).actions[ai].option_strings :
              StartsWith(Parser(rs.g).actions[ai].option_strings[k], rs.text)

\* the replay reached the partial token and left no active slot and no pending
\* positional slot
NothingPending ==
    /\ Done
    /\ rs.status = "run"
    /\ ~IsSet(rs.flag_arg_state)
    /\ ~IsSet(rs.pos_arg_state)
    /\ rs.remaining_positionals = <<>>

\* C11 as stated: with no active slot and no pending positional slot, any partial token
\* is completed with the aliases that start with it and whose flag is not yet
\* satisfied, in declared order
C11_FlagFallbackAlways == NothingPending => completions = FlagCandidates({})

\* C11 (amended): the same while flags are not disabled, without the aliases of the
\* slots whose help is suppressed; once flags are disabled the result is empty
C11_FlagFallback ==
    NothingPending =>
        IF rs.skip_remaining_flags THEN completions = <<>>
        ELSE completions = FlagCandidates({SUPPRESS})

\* a grammar with only flag slots completes the empty string after a non-repeatable and
\* a repeatable flag were seen: the aliases of the first are left out
C11_Witness ==
    /\ NothingPending
    /\ ~rs.skip_remaining_flags
    /\ ArgparseCompleter(rs.g).positional_actions = <<>>
    /\ rs.text = <<>>
    /\ SeenOnce # {}
    /\ \E k \in DOMAIN hist :
          hist[k].how = "flag" /\ Repeatable(Parser(rs.g).actions[hist[k].action].kind)
    /\ Len(completions) >= 2

\* the slot whose values the last step completes, completer.py:240-249 : the active
\* flag slot, else the active positional slot, else the next pending positional slot
CompletedSlot ==
    IF IsSet(rs.flag_arg_state) THEN rs.flag_arg_state.action
    ELSE IF IsSet(rs.pos_arg_state) THEN rs.pos_arg_state.action
    ELSE Head(rs.remaining_positionals)

\* the ways a prefix token is consumed as a value of a slot
ValueOfSlot == {"flag_value", "flag_remainder_value", "pos_value", "pos_remainder_value"}

\* the values the prefix tokens gave to slot ai of the completing grammar
ValuesConsumedBy(ai) ==
    {hist[k].token : k \in {i \in DOMAIN hist :
        hist[i].level = rs.level /\ hist[i].action = ai /\ hist[i].how \in ValueOfSlot}}

\* the last step completes the values of a slot
SlotCompleting == Done /\ rs.status = "run" /\ out_kind = "args"

\* the texts of the candidates, in order
Texts == [i \in DOMAIN completions |-> completions[i].text]

\* C12: at a slot that declares choices the candidates are exactly the choices that
\* start with the partial token, in declared order, minus the values already consumed
\* for the slot when it is not repeatable; a repeatable slot excludes nothing
C12_ChoicesMinusConsumed ==
    (SlotCompleting /\ Parser(rs.g).actions[CompletedSlot].has_choices) =>
        LET a == Parser(rs.g).actions[CompletedSlot]
            excluded == IF Repeatable(a.kind) THEN {} ELSE ValuesConsumedBy(CompletedSlot)
        IN  Texts = SelectSeq(a.choices, LAMBDA c : StartsWith(c, rs.text) /\ c \notin excluded)

\* the positional slots of the completing grammar that a prefix token has started
StartedPositionals ==
    {hist[k].action : k \in {i \in DOMAIN hist :
        hist[i].level = rs.level /\ hist[i].how \in {"pos_value", "pos_remainder_value"}}}

\* the positional slots of the completing grammar, in declared order, that no prefix
\* token has started
PendingPositionals ==
    SelectSeq(ArgparseCompleter(rs.g).positional_actions, LAMBDA ai : ai \notin StartedPositionals)

\* the replay reached a partial token that does not look like a flag while no value is
\* being collected and a positional slot has not been started
PositionalPartial ==
    /\ Done
    /\ rs.status = "run"
    /\ ~LooksLikeFlag(ArgparseCompleter(rs.g), rs.text)
    /\ ~IsSet(rs.flag_arg_state)
    /\ ~IsSet(rs.pos_arg_state)
    /\ PendingPositionals # <<>>

\* the candidates made of the choices of action a that start with the partial token
ChoiceCandidates(a) ==
    LET keep == SelectSeq(a.choices, LAMBDA c : StartsWith(c, rs.text))
    IN  [i \in DOMAIN keep |->
            [text |-> keep[i], start_position |-> 0 - Len(rs.text), display |-> keep[i],
             display_meta |-> [dest |-> a.dest, help |-> HelpOrNone(a.help)]]]

\* C13: when the partial token does not look like a flag and no value is being
\* collected, the slot completed is the first declared positional slot that no prefix
\* token has started: the candidates are its choices that start with the partial token
\* (none if it declares no choices), the subcommand names when it is the dispatch slot
C13_NextPositionalCompleted ==
    PositionalPartial =>
        LET a == Parser(rs.g).actions[PendingPositionals[1]]
        IN  /\ out_kind = "args"
            /\ completions = IF a.has_choices THEN ChoiceCandidates(a) ELSE <<>>

\* after the first positional was filled the second one is completed, and at the
\* dispatch slot the subcommand names are the candidates
C13_Witness ==
    /\ PositionalPartial
    /\ completions # <<>>
    /\ \/ StartedPositionals # {}
       \/ /\ Parser(rs.g).actions[PendingPositionals[1]].kind = "subparsers"
          /\ hist # <<>>

\* the replay reached the partial token and the last step has a slot to complete: the
\* partial token is not completed as a flag, and a flag slot or a positional slot is
\* active or a positional slot is pending
SlotToComplete ==
    /\ Done
    /\ rs.status = "run"
    /\ ~(LooksLikeFlag(ArgparseCompleter(rs.g), rs.text) /\ ~rs.skip_remaining_flags)
    /\ \/ IsSet(rs.flag_arg_state)
       \/ IsSet(rs.pos_arg_state)
       \/ rs.remaining_positionals # <<>>

\* C14: when the slot to complete (the active flag slot, the active positional slot or
\* the next pending positional slot) declares no choices the result is empty: no flag
\* alias and no choice of another slot is offered in its place
C14_FreeFormIsEmpty ==
    (SlotToComplete /\ ~Parser(rs.g).actions[CompletedSlot].has_choices)
        => completions = <<>>

\* a value-taking flag without choices is active, or the next positional is free-form
\* after the first was filled, while the grammar has aliases that start with the
\* partial token and a slot with choices
C14_Witness ==
    /\ SlotToComplete
    /\ ~Parser(rs.g).actions[CompletedSlot].has_choices
    /\ hist # <<>>
    /\ FlagCandidates({SUPPRESS}) # <<>>
    /\ \E ai \in DOMAIN Parser(rs.g).actions : Parser(rs.g).actions[ai].has_choices

\* a replayed prefix token that is an ambiguous flag abbreviation of its grammar: it
\* looks like a flag, is no alias and is a prefix of more than one alias
AmbiguousAbbreviation(e) ==
    LET self == ArgparseCompleter(e.g)
    IN  /\ LooksLikeFlag(self, e.token)
        /\ FlagToAction(self, e.token) = 0
        /\ Cardinality({k \in DOMAIN self.flags : StartsWith(self.flags[k].flag, e.token)}) > 1

\* C15: a prefix token that is an ambiguous flag abbreviation is taken as a plain value
\* of a positional slot, or else the completion of the line is empty
C15_AmbiguousIsValueOrEmpty ==
    \A k \in DOMAIN hist :
        AmbiguousAbbreviation(hist[k]) =>
            \/ hist[k].how \in {"pos_value", "pos_remainder_value"}
            \/ Done => completions = <<>>

\* the replayed tokens that reached the dispatch slot of their grammar (the slot was
\* popped for them, completer.py:206-208) and are not a key of its table
UnknownSubcommands ==
    {k \in DOMAIN hist :
        LET self == ArgparseCompleter(hist[k].g)
        IN  /\ hist[k].action # 0
            /\ hist[k].action = self.subcommand_action
            /\ ~InSeq(hist[k].token, self.parser.actions[hist[k].action].choices)}

\* C16: a prefix token that reaches the dispatch slot and is no key of the dispatch
\* table ends the request with an empty result: no later token is replayed and nothing
\* is yielded, whatever follows the token on the line
C16_UnknownSubcommandIsEmpty ==
    \A k \in UnknownSubcommands :
        /\ k = Len(hist)
        /\ cpc = "done"
        /\ completions = <<>>
        /\ out_kind = "none"

\* an unknown name at the dispatch slot with further tokens after it on the line
C16_Witness ==
    /\ UnknownSubcommands # {}
    /\ Done
    /\ Len(rs.toks) > rs.i + 1

\* the index in text of the first character of the token under the cursor, the cursor
\* being behind the last character: Len(text) + 1 when the cursor follows a space
\* outside quotes. state is " " between tokens, "a" in a word, a quote character in a
\* quoted token and "e" right behind a closing quote.
RECURSIVE TokenStart(_, _, _, _)
TokenStart(text, i, state, start) ==
    IF i > Len(text) THEN (IF state = " " THEN Len(text) + 1 ELSE start)
    ELSE LET c == text[i]
         IN  IF state \in Quotes
             THEN TokenStart(text, i + 1, IF c = state THEN "e" ELSE state, start)
             ELSE IF c = " " THEN TokenStart(text, i + 1, " ", start)
             ELSE IF state = "a" THEN TokenStart(text, i + 1, "a", start)
             ELSE TokenStart(text, i + 1, IF c \in Quotes THEN c ELSE "a", i)

\* the number of characters between the start of the token under the cursor and the
\* cursor
PartialLength(text) == Len(text) + 1 - TokenStart(text, 1, " ", 1)

\* C17: every candidate's start offset is minus the number of characters of the line
\* between the start of the token under the cursor and the cursor, also when that token
\* has an unterminated quote
C17_StartOffsetIsPartialLength ==
    \A k \in DOMAIN completions :
        completions[k].start_position = 0 - PartialLength(document.text)

\* the state the scan of TokenStart ends in
RECURSIVE ScanState(_, _, _)
ScanState(text, i, state) ==
    IF i > Len(text) THEN state
    ELSE LET c == text[i]
         IN  IF state \in Quotes THEN ScanState(text, i + 1, IF c = state THEN "e" ELSE state)
             ELSE IF c = " " THEN ScanState(text, i + 1, " ")
             ELSE IF state = "a" THEN ScanState(text, i + 1, "a")
             ELSE ScanState(text, i + 1, IF c \in Quotes THEN c ELSE "a")

\* the text before the cursor contains an unterminated quote
UnterminatedQuote(text) == ScanState(text, 1, " ") \in Quotes

\* the tokens get_completions handed to _get_completion_texts: those of the outermost
\* frame
RequestTokens == cpc # "idle" /\ rs.level = 0

\* C18: when the text before the cursor has an unterminated quote, the partial token is
\* the text from that quote to the cursor and the prefix tokens are the tokens of the
\* text before the quote
C18_OpenQuoteIsPartial ==
    (RequestTokens /\ UnterminatedQuote(document.text)) =>
        LET text == document.text
            start == TokenStart(text, 1, " ", 1)
        IN  /\ rs.text = SubSeq(text, start, Len(text))
            /\ SubSeq(rs.toks, 1, Len(rs.toks) - 1) = ShlexSplit(SubSeq(text, 1, start - 1)).tokens

(***************************************************************************)
(* Several requests on one ArgparseCompleter.  The prompt session is given *)
(* the completer with complete_in_thread=True (core.py:282-288), so        *)
(* get_completions of a new keystroke can start while that of an earlier   *)
(* one is still running.  Each call of the generator function has its own  *)
(* frame (completer.py:145-150); the completer object is the same.         *)
(***************************************************************************)
\* the longest line of a request, in words
MaxRequestWords == 1

\* the requests made on the completer
Requests == {1, 2}

\* the texts before the cursor the requests are made with
RequestLines(g) ==
    LET wordLists == UNION {[1..n -> Vocabulary(g)] : n \in 0..MaxRequestWords}
    IN  {Join(w) : w \in wordLists} \cup {Append(Join(w), " ") : w \in wordLists}

\* a request that has not been made yet
NoRequest ==
    [pc |-> "idle", document |-> None, frame |-> None, completions |-> <<>>,
     out_kind |-> "none", cexc |-> None, served |-> 0]

\* the completer is constructed once for its parser, completer.py:80-91
InitRequests ==
    /\ DispatchIdle
    /\ CompleterIdle
    /\ CmdIdle
    /\ ClassesIdle
    /\ TreeIdle
    /\ \E g \in Grammars : completer = ArgparseCompleter(g)
    /\ requests = [r \in Requests |-> NoRequest]

\* the completer whose _get_completion_texts runs in frame s: the shared one for the
\* outermost frame, the one made at completer.py:212 for a nested frame
CompleterOf(self, s) == IF s.level = 0 THEN self ELSE ArgparseCompleter(s.g)

\* (mutant) remaining_positionals is self._positional_actions itself, not a copy
CompleterAfterPop(self, s) ==
    IF s.level = 0 THEN [self EXCEPT !.positional_actions = s.remaining_positionals]
    ELSE self

\* the fields of the completer after a step of a frame: _get_completion_texts assigns no
\* attribute of self, and remaining_positionals is a deque copied from
\* self._positional_actions (completer.py:145), so popleft leaves the list alone
CompleterAfter(self, s) == self

\* (mutant) matched_flags is kept where every running frame sees it
SetLocalsShared(reqs, r, rec) ==
    [q \in DOMAIN reqs |->
        IF q = r THEN rec
        ELSE IF reqs[q].pc = "replay" /\ rec.pc = "replay"
        THEN [reqs[q] EXCEPT !.frame.matched_flags = rec.frame.matched_flags]
        ELSE reqs[q]]

\* the locals of request r become rec: they live in the frame of r's own generator
\* (completer.py:145-150), no other request's frame changes
SetLocals(reqs, r, rec) == [reqs EXCEPT ![r] = rec]

\* completer.py:119-133 : request r calls _get_completion_texts with the tokens of its
\* text; served counts the requests that had returned by then
CallFor(r, text, tokens) ==
    /\ requests' = SetLocals(requests, r,
           [pc |-> "replay",
            document |-> [g |-> completer.parser.prog, text |-> text],
            frame |-> InitReplay(completer, TextToComplete(tokens), tokens,
                                 0 - Len(TextToComplete(tokens)), 0),
            completions |-> <<>>, out_kind |-> "none", cexc |-> None,
            served |-> Cardinality({q \in Requests : requests[q].pc = "done"})])
    /\ completer' = completer

\* get_completions of request r up to the call, completer.py:93-133
StartRequest(r, text) ==
    /\ requests[r].pc = "idle"
    /\ CallFor(r, text, Tokenize(text))

\* request r after an iteration with outcome o
RequestIterated(r, o) ==
    /\ requests' = SetLocals(requests, r,
           [requests[r] EXCEPT !.frame = o.s,
                               !.pc = IF o.s.status = "run" THEN "replay" ELSE "done",
                               !.cexc = IF o.s.status = "raise" THEN "TypeError" ELSE @])
    /\ completer' = CompleterAfter(completer, o.s)

\* one iteration of r's loop over the prefix tokens, completer.py:153-230
RequestReplayStep(r) ==
    /\ requests[r].pc = "replay"
    /\ requests[r].frame.i <= Len(requests[r].frame.toks) - 1
    /\ RequestIterated(r, ReplayToken(CompleterOf(completer, requests[r].frame),
                                      requests[r].frame))

\* the caller of request r receives what the last step yields
RequestYield(r, y) ==
    /\ requests' = SetLocals(requests, r,
           [requests[r] EXCEPT !.pc = "done", !.completions = y.items,
                               !.out_kind = y.kind])
    /\ completer' = CompleterAfter(completer, requests[r].frame)

\* r's completion of the last token, completer.py:232-253
RequestCompleteLast(r) ==
    /\ requests[r].pc = "replay"
    /\ requests[r].frame.i > Len(requests[r].frame.toks) - 1
    /\ RequestYield(r, CompleteLast(CompleterOf(completer, requests[r].frame),
                                    requests[r].frame))

NextRequests ==
    /\ UNCHANGED dvars
    /\ UNCHANGED cvars
    /\ UNCHANGED mvars
    /\ \/ \E r \in Requests : \E text \in RequestLines(completer.parser.prog) :
              StartRequest(r, text)
       \/ \E r \in Requests : RequestReplayStep(r)
       \/ \E r \in Requests : RequestCompleteLast(r)

SpecRequests == InitRequests /\ [][NextRequests]_vars

\* request r has returned
Returned(r) == requests[r].pc = "done"

\* what request r gave its caller
ResultOf(r) ==
    [items |-> requests[r].completions, kind |-> requests[r].out_kind,
     exc |-> requests[r].cexc]

\* what a request with these tokens gives when it is the only one made on a newly
\* constructed completer of grammar g
AloneWith(g, tokens) ==
    FreshRun(g, TextToComplete(tokens), tokens, 0 - Len(TextToComplete(tokens)))
Alone(doc) == AloneWith(doc.g, Tokenize(doc.text))

\* the completer has the fields its constructor gave it
AsConstructed == completer = ArgparseCompleter(completer.parser.prog)

\* request q was made after another request had returned
MadeAfterAnother(q) == Returned(q) /\ requests[q].served > 0

\* C19: a request made on a completer that has already served a request returns what
\* the same request returns alone on a new completer, and so the same candidate
\* sequence as the earlier request when that one had the same line; once no request is
\* running the completer's fields are those its constructor gave it
C19_Idempotent ==
    /\ \A q \in Requests : MadeAfterAnother(q) =>
           /\ ResultOf(q) = Alone(requests[q].document)
           /\ \A r \in Requests \ {q} :
                  (Returned(r) /\ requests[r].document = requests[q].document)
                      => ResultOf(r) = ResultOf(q)
    /\ (\A r \in Requests : requests[r].pc # "replay") => AsConstructed

\* the same line completed twice, one request after the other, with a prefix token
\* replayed and candidates returned
C19_Witness ==
    \E q \in Requests : \E r \in Requests \ {q} :
        /\ MadeAfterAnother(q)
        /\ Returned(r)
        /\ requests[r].served = 0
        /\ requests[r].document = requests[q].document
        /\ Len(requests[q].frame.toks) > 1
        /\ requests[q].completions # <<>>

\* requests r and q overlapped: each was made before the other returned
Overlapped(r, q) ==
    /\ r # q
    /\ Returned(r) /\ Returned(q)
    /\ requests[r].served = 0
    /\ requests[q].served = 0

\* C20: however the steps of the requests interleave, every request returns what it
\* returns alone on a new completer, and at every step the completer's grammar fields
\* and parser are those its constructor gave it
C20_InterleavedAsAlone ==
    /\ AsConstructed
    /\ \A r \in Requests : Returned(r) => ResultOf(r) = Alone(requests[r].document)

\* two overlapping requests with different lines, each with a prefix token replayed and
\* candidates returned
C20_Witness ==
    \E r \in Requests : \E q \in Requests :
        /\ Overlapped(r, q)
        /\ requests[r].document # requests[q].document
        /\ Len(requests[r].frame.toks) > 1
        /\ Len(requests[q].frame.toks) > 1
        /\ requests[r].completions # <<>>
        /\ requests[q].completions # <<>>
        /\ requests[r].completions # requests[q].completions

(***************************************************************************)
(* Dispatch: the chain of invoke_from_ns                                   *)
(***************************************************************************)
\* invoke_from_ns has built its chain and has not popped it yet
ChainBuilt == dpc = "loop" /\ calls = <<>>

\* the commands on the _parent path from the resolved command up to the command the
\* dispatch was invoked on, resolved command first; empty when that command is not on
\* the path
ParentPath ==
    SelectSeq(PathUp(ResolvedIns(ns, self_cmd)),
              LAMBDA c : self_cmd \in SeqRange(PathUp(c)))

\* C28: the chain built by invoke_from_ns holds exactly the commands on the _parent
\* path between the command dispatch was invoked on and the resolved command, each
\* once; the command dispatch was invoked on is the one popped first and the resolved
\* command the one popped last; the chain is refused (AssertionError) only when the
\* resolved command is not below the command dispatch was invoked on
C28_ChainIsParentPath ==
    /\ ChainBuilt =>
          /\ cmd_chain # <<>>
          /\ cmd_chain = ParentPath
          /\ PopChain(cmd_chain).cmd_ins = self_cmd
          /\ cmd_chain[1] = ResolvedIns(ns, self_cmd)
          /\ Cardinality(SeqRange(cmd_chain)) = Len(cmd_chain)
    /\ (dpc = "raised" /\ exc = "AssertionError") => ParentPath = <<>>
    /\ (dpc \in {"loop", "handler", "returned"} /\ parse_end # "SystemExit" /\ entry # None)
          => ParentPath # <<>>

\* a dispatch invoked on a command that has a parent itself: the chain stops at it
C28_Witness ==
    /\ ChainBuilt
    /\ self_cmd = "sub1"
    /\ cmd_chain = <<"leaf", "sub1">>

\* the active flag slot has consumed fewer values than its minimum
FlagSlotStarved ==
    /\ cpc = "replay"
    /\ rs.flag_arg_state.action # 0
    /\ rs.flag_arg_state.min_kind = "int"
    /\ rs.flag_arg_state.count < rs.flag_arg_state.min

\* the token the next step looks at: the next prefix token, or the partial token when
\* the prefix tokens are used up
NextSeen == IF rs.i <= Len(rs.toks) - 1 THEN rs.toks[rs.i] ELSE rs.text

\* the next token seen is a bare '--' or looks like a flag
FlagOrEndOfFlagsNext ==
    \/ NextSeen = <<"-", "-">>
    \/ LooksLikeFlag(ArgparseCompleter(rs.g), NextSeen)

\* the step ends the request with nothing yielded
EndsEmpty ==
    /\ cpc' = "done"
    /\ completions' = <<>>
    /\ out_kind' = "none"
    /\ cexc' = None

\* C29: a step that finds the active flag slot short of its minimum and sees a bare '--'
\* or a token that looks like a flag, as prefix token or as partial token, ends the
\* request with an empty result
C29_MalformedIsEmpty ==
    [][(FlagSlotStarved /\ FlagOrEndOfFlagsNext) => EndsEmpty]_vars

\* a request that ended empty on a flag-like token while a flag slot was starved: the
\* grammar has candidates for that token otherwise
C29_Witness ==
    /\ Done
    /\ completions = <<>>
    /\ rs.flag_arg_state.action # 0
    /\ rs.flag_arg_state.count < rs.flag_arg_state.min
    /\ rs.flag_arg_state.count > 0
    /\ LooksLikeFlag(ArgparseCompleter(rs.g), NextSeen)
    /\ NextSeen # <<"-", "-">>

\* the prefix tokens the completing grammar resolved to a flag, by alias or by
\* abbreviation
ResolvedFlags == {k \in DOMAIN hist : hist[k].level = rs.level /\ hist[k].how = "flag"}

\* the last step yielded flag candidates
FlagsOffered == Done /\ out_kind = "flags"

\* the aliases of slot ai of the completing grammar
AliasesOf(ai) == SeqRange(Parser(rs.g).actions[ai].option_strings)

\* the flag slots of the completing grammar that are repeatable and not hidden
RepeatableFlags ==
    {ai \in DOMAIN Parser(rs.g).actions :
        /\ Parser(rs.g).actions[ai].option_strings # <<>>
        /\ Repeatable(Parser(rs.g).actions[ai].kind)
        /\ Parser(rs.g).actions[ai].help # SUPPRESS}

\* the slot takes at least one value: its maximum arity is above zero
TakesValues(ai) == Parser(rs.g).actions[ai].nargs # "0"

\* C30: the aliases of a non-repeatable flag that a prefix token resolved to are not
\* among the flag candidates; every alias of a repeatable flag that starts with the
\* partial token is, however often the flag occurred; and right after a token resolved
\* to a flag, that flag is the active slot if it takes values and no slot is active
\* otherwise
C30_SeenFlagsNotOffered ==
    /\ FlagsOffered =>
          /\ \A k \in ResolvedFlags :
                ~Repeatable(Parser(rs.g).actions[hist[k].action].kind)
                    => AliasesOf(hist[k].action) \cap SeqRange(Texts) = {}
          /\ \A ai \in RepeatableFlags :
                {f \in AliasesOf(ai) : StartsWith(f, rs.text)} \subseteq SeqRange(Texts)
    /\ (cpc = "replay" /\ hist # <<>> /\ Len(hist) \in ResolvedFlags) =>
          rs.flag_arg_state.action =
              IF TakesValues(hist[Len(hist)].action) THEN hist[Len(hist)].action ELSE 0

\* flag candidates are offered after a non-repeatable flag was resolved and a
\* repeatable flag occurred twice
C30_Witness ==
    /\ FlagsOffered
    /\ \E k \in ResolvedFlags :
          /\ ~Repeatable(Parser(rs.g).actions[hist[k].action].kind)
          /\ Parser(rs.g).actions[hist[k].action].help # SUPPRESS
    /\ \E k, j \in ResolvedFlags :
          /\ k # j
          /\ hist[k].action = hist[j].action
          /\ hist[k].action \in RepeatableFlags
          /\ AliasesOf(hist[k].action) \cap SeqRange(Texts) # {}

(***************************************************************************)
(* BaseCmd, core.py: the command registry of an instance, parseline,       *)
(* onecmd, emptyline, default and the loop of cmdloop_async.  A line is a  *)
(* sequence of characters.                                                 *)
(***************************************************************************)
HELP == <<"h", "e", "l", "p">>
EXIT == <<"e", "x", "i", "t">>
SHELL == <<"s", "h", "e", "l", "l">>
RUN_SCRIPT == <<"r", "u", "n">>
EOF == <<"E", "O", "F">>
NOCMD == <<"n", "o">>

\* self.shortcuts in the order of the dict, as DEFAULT_SHORTCUTS (core.py:89): help is a
\* command of Cmd, shell and run_script are commands of no class of core.py
Shortcuts ==
    <<[shortcut |-> <<"?">>, cmd_name |-> HELP],
      [shortcut |-> <<"!">>, cmd_name |-> SHELL],
      [shortcut |-> <<"@">>, cmd_name |-> RUN_SCRIPT]>>

\* a CommandInfo as far as core.py reads it
CommandInfo(name, hidden, disabled) == [name |-> name, hidden |-> hidden, disabled |-> disabled]

\* the registries an instance is given: the commands of Cmd (core.py:450-559) in the
\* order of the dict, help hidden or not, each disabled or not
Registries ==
    {<<CommandInfo(HELP, h1, d1), CommandInfo(EXIT, FALSE, d2)>> :
        h1 \in BOOLEAN, d1 \in BOOLEAN, d2 \in BOOLEAN}

\* self.command_info.get(cmd): the index of the entry, 0 for None
InfoOf(infos, cmd) ==
    LET hits == {k \in DOMAIN infos : infos[k].name = cmd}
    IN  IF hits = {} THEN 0 ELSE CHOOSE k \in hits : TRUE

\* line.strip()
RECURSIVE LStrip(_)
LStrip(line) == IF line # <<>> /\ Head(line) = " " THEN LStrip(Tail(line)) ELSE line
RECURSIVE RStrip(_)
RStrip(line) ==
    IF line # <<>> /\ line[Len(line)] = " " THEN RStrip(SubSeq(line, 1, Len(line) - 1))
    ELSE line
Strip(line) == RStrip(LStrip(line))

\* what parseline gives: none tells that command and arguments are None, raises that
\* shlex.split raised ValueError
Parsed(none, cmd, arg, line, raises) ==
    [none |-> none, cmd |-> cmd, arg |-> arg, line |-> line, raises |-> raises]

\* core.py:315-316 : tokens = shlex.split(line, comments=False, posix=False)
SplitLine(line, split) ==
    IF ~split.ok THEN Parsed(TRUE, <<>>, <<>>, line, TRUE)
    ELSE Parsed(FALSE, Head(split.tokens), Tail(split.tokens), line, FALSE)

\* core.py:310-316 : the loop over the shortcuts from the k-th on, then the split
RECURSIVE ParseShortcuts(_, _, _)
ParseShortcuts(infos, line, k) ==
    IF k > Len(Shortcuts) THEN SplitLine(line, ShlexSplit(line))
    ELSE IF StartsWith(line, Shortcuts[k].shortcut)
    THEN IF InfoOf(infos, Shortcuts[k].cmd_name) = 0
         THEN Parsed(TRUE, <<>>, <<>>, line, FALSE)
         ELSE ParseShortcuts(infos,
                  Shortcuts[k].cmd_name \o <<" ">>
                      \o SubSeq(line, Len(Shortcuts[k].shortcut) + 1, Len(line)),
                  k + 1)
    ELSE ParseShortcuts(infos, line, k + 1)

\* core.py:307-309
ParseStripped(infos, line) ==
    IF line = <<>> THEN Parsed(TRUE, <<>>, <<>>, line, FALSE)
    ELSE ParseShortcuts(infos, line, 1)

\* parseline, core.py:290-316
Parseline(infos, line) == ParseStripped(infos, Strip(line))

\* what a command function can return (None, a bool, another truthy or falsy object)
\* and raise
CmdRetVals == {None, "True", "False", "obj", "empty"}
CmdRaisable == {"Exception", "SystemExit", "KeyboardInterrupt", "CancelledError"}

\* the except clauses written as one bare except
CaughtAll == {"Exception", "SystemExit", "KeyboardInterrupt", "CancelledError"}

\* core.py:340, 343 : what the except clauses of onecmd catch; asyncio.CancelledError
\* and GeneratorExit derive from BaseException only
Caught == {"Exception", "SystemExit", "KeyboardInterrupt"}

\* bool(result)
Bool(v) == IF v \in {"True", "obj"} THEN "True" ELSE "False"

\* a default that returns None for every line
DefaultResultNone(line) == None

\* the value default returns, core.py:368-370
DefaultResult(line) == IF line = EOF THEN "True" ELSE None

(***************************************************************************)
(* The instance as a machine.  The coroutines of core.py await one another *)
(* and nothing runs beside them, so what is running is a stack of frames;  *)
(* a frame is [fn, pc, line, cmd, arg, stop], and a value or an exception  *)
(* travels from a frame that ended to the frame that awaits it.            *)
(***************************************************************************)
Frame(fn, line, cmd, arg) ==
    [fn |-> fn, pc |-> "enter", line |-> line, cmd |-> cmd, arg |-> arg, stop |-> None]

NoFlight == [kind |-> "none"]
Return(v) == [kind |-> "return", value |-> v]
Raise(e) == [kind |-> "raise", value |-> e]

Top == stack[Len(stack)]
Caller == SubSeq(stack, 1, Len(stack) - 1)

\* the innermost frame is in fn at pc, and nothing is on its way to it
At(fn, pc) ==
    /\ stack # <<>>
    /\ flight.kind = "none"
    /\ Top.fn = fn
    /\ Top.pc = pc

\* the frame fn awaits at pc, and what it awaited has ended with kind
Resumed(fn, pc, kind) ==
    /\ stack # <<>>
    /\ flight.kind = kind
    /\ Top.fn = fn
    /\ Top.pc = pc

\* the innermost frame moves to pc and awaits the new frame f
Await(pc, f) == Append([stack EXCEPT ![Len(stack)].pc = pc], f)

\* an entry of the trace
Event(ev, line, cmd, arg) == [ev |-> ev, line |-> line, cmd |-> cmd, arg |-> arg]
Plain(ev) == Event(ev, <<>>, <<>>, <<>>)

\* how many lines are put in cmdqueue before the loop, and how many times input_line
\* gives a line or is interrupted before the input ends
MaxQueue == 2
MaxReads == 1

UNTERMINATED == <<DQUOTE, "x">>

\* the lines the methods are called with: a first word, arguments, and blanks around
FirstWords == {HELP, EXIT, NOCMD, EOF, <<"?">>, <<"?", "x">>, <<"!", "x">>, <<"@">>}
ArgLists == {<<>>, <<<<"x">>>>, <<<<"x">>, <<"y">>>>, <<<<DQUOTE, "x", " ", "y", DQUOTE>>>>,
             <<UNTERMINATED>>}
CmdLines ==
    LET bare == {Join(<<w>> \o a) : w \in FirstWords, a \in ArgLists}
    IN  bare \cup {<<" ">> \o l \o <<" ">> : l \in bare} \cup {<<>>, <<" ">>, UNTERMINATED}

\* the lines queued and typed while the loop runs
LoopLines == {HELP \o <<" ">> \o <<"x">>, EOF, <<>>, HELP \o <<" ">> \o UNTERMINATED}
Queues == UNION {[1..n -> LoopLines] : n \in 0..MaxQueue}

\* the values lastcmd is given from outside
LastCmds == {HELP, NOCMD, <<"?", "x">>}

Truthy(v) == v \in {"True", "obj"}

\* the commands that are not disabled, hidden or not
GetEnabledCommandInfo(infos) == SelectSeq(infos, LAMBDA info : ~info.disabled)

\* get_visible_command_info, core.py:380-386
GetVisibleCommandInfo(infos) == SelectSeq(infos, LAMBDA info : ~info.hidden /\ ~info.disabled)

\* get_visible_commands, core.py:388-396
GetVisibleCommands(infos) ==
    LET visible == GetVisibleCommandInfo(infos)
    IN  [k \in DOMAIN visible |-> visible[k].name]

\* core.py:412 : cmd_completer_options, the names that get a completer
CmdCompleterOptions(infos) == {info.name : info \in SeqRange(GetVisibleCommandInfo(infos))}

\* core.py:413-415 : shortcut_completers, the shortcuts that get a completer, each with
\* the name whose completer it gets
ShortcutCompleters(options) ==
    {s \in SeqRange(Shortcuts) : s.cmd_name \in options}

\* the completer property, core.py:410-416 : the two dicts MultiPrefixCompleter and
\* NestedCompleter are built from
CompleterProperty(options) ==
    [shortcut_completers |-> ShortcutCompleters(options), cmd_completer_options |-> options]

InitCmd ==
    /\ DispatchIdle
    /\ CompleterIdle
    /\ RequestsIdle
    /\ ClassesIdle
    /\ TreeIdle
    /\ command_info \in Registries
    /\ cmdqueue = <<>>
    /\ lastcmd = <<>>
    /\ stack = <<>>
    /\ flight = NoFlight
    /\ called = [fn |-> "none", line |-> <<>>, queue |-> <<>>]
    /\ trace = <<>>
    /\ reads = 0

\* cmd.lastcmd = ... before a call
SetLastcmd(l) ==
    /\ called.fn = "none"
    /\ lastcmd = <<>>
    /\ lastcmd' = l
    /\ UNCHANGED <<command_info, cmdqueue, stack, flight, called, trace, reads>>

\* a call from outside that returns at once
Answer(fn, line, fl, events) ==
    /\ called.fn = "none"
    /\ called' = [fn |-> fn, line |-> line, queue |-> <<>>]
    /\ flight' = fl
    /\ trace' = trace \o events
    /\ UNCHANGED <<command_info, cmdqueue, lastcmd, stack, reads>>

\* a call from outside of a coroutine
Enter(fn, line, events) ==
    /\ called.fn = "none"
    /\ called' = [fn |-> fn, line |-> line, queue |-> <<>>]
    /\ stack' = <<Frame(fn, line, <<>>, <<>>)>>
    /\ trace' = trace \o events
    /\ UNCHANGED <<command_info, cmdqueue, lastcmd, flight, reads>>

\* what parseline hands to its caller
ParselineOutcome(p) == IF p.raises THEN Raise("ValueError") ELSE Return(p)

CallParseline(line) ==
    Answer("parseline", line, ParselineOutcome(Parseline(command_info, line)), <<>>)

\* default, core.py:359-370
DefaultEvents(line) ==
    IF line = EOF THEN <<Event("default", line, <<>>, <<>>)>>
    ELSE <<Event("default", line, <<>>, <<>>), Event("perror", line, <<>>, <<>>)>>

CallDefault(line) == Answer("default", line, Return(DefaultResult(line)), DefaultEvents(line))

CallGetVisibleCommands ==
    Answer("get_visible_commands", <<>>, Return(GetVisibleCommands(command_info)), <<>>)

CallCompleter ==
    Answer("completer", <<>>, Return(CompleterProperty(CmdCompleterOptions(command_info))), <<>>)

CallOnecmd(line) == Enter("onecmd", line, <<>>)

CallEmptyline == Enter("emptyline", <<>>, <<>>)

\* cmd.cmdqueue = q, then cmdloop_async up to the loop, core.py:198-204
CallCmdloopAsync(q) ==
    /\ called.fn = "none"
    /\ cmdqueue' = q
    /\ called' = [fn |-> "cmdloop_async", line |-> <<>>, queue |-> q]
    /\ stack' = <<Frame("cmdloop_async", <<>>, <<>>, <<>>)>>
    /\ trace' = Append(trace, Plain("preloop"))
    /\ UNCHANGED <<command_info, lastcmd, flight, reads>>

\* the innermost frame ends and fl goes to its caller
EndFrame(fl, events) ==
    /\ stack' = Caller
    /\ flight' = fl
    /\ trace' = trace \o events
    /\ UNCHANGED <<command_info, cmdqueue, called, reads>>

\* core.py:205 : while not stop, left with a true stop; then postloop, core.py:218-219
LoopStops ==
    /\ At("cmdloop_async", "enter")
    /\ Truthy(Top.stop)
    /\ EndFrame(Return(None), <<Plain("postloop")>>)
    /\ UNCHANGED lastcmd

\* core.py:215-216 : line = precmd(line); stop = await self.onecmd(line)
TakeLine(line, ev) ==
    /\ stack' = Append([stack EXCEPT ![Len(stack)].pc = "onecmd", ![Len(stack)].line = line],
                       Frame("onecmd", line, <<>>, <<>>))
    /\ trace' = trace \o <<Event(ev, line, <<>>, <<>>), Event("precmd", line, <<>>, <<>>)>>
    /\ UNCHANGED <<command_info, lastcmd, flight, called>>

\* the loop takes the line at the end of the queue
QueuePopLast ==
    /\ At("cmdloop_async", "enter")
    /\ ~Truthy(Top.stop)
    /\ cmdqueue # <<>>
    /\ cmdqueue' = SubSeq(cmdqueue, 1, Len(cmdqueue) - 1)
    /\ TakeLine(cmdqueue[Len(cmdqueue)], "pop")
    /\ UNCHANGED reads

\* core.py:206-207 : line = self.cmdqueue.pop(0)
QueuePop ==
    /\ At("cmdloop_async", "enter")
    /\ ~Truthy(Top.stop)
    /\ cmdqueue # <<>>
    /\ cmdqueue' = Tail(cmdqueue)
    /\ TakeLine(Head(cmdqueue), "pop")
    /\ UNCHANGED reads

\* core.py:209-210 : line = await self.input_line()
InputLine(line) ==
    /\ At("cmdloop_async", "enter")
    /\ ~Truthy(Top.stop)
    /\ cmdqueue = <<>>
    /\ reads < MaxReads
    /\ reads' = reads + 1
    /\ TakeLine(line, "read")
    /\ UNCHANGED cmdqueue

\* core.py:213-214 : except EOFError: line = "EOF"
InputEOF ==
    /\ At("cmdloop_async", "enter")
    /\ ~Truthy(Top.stop)
    /\ cmdqueue = <<>>
    /\ reads' = reads + 1
    /\ TakeLine(EOF, "eof")
    /\ UNCHANGED cmdqueue

\* core.py:211-212 : except KeyboardInterrupt: continue
InputInterrupt ==
    /\ At("cmdloop_async", "enter")
    /\ ~Truthy(Top.stop)
    /\ cmdqueue = <<>>
    /\ reads < MaxReads
    /\ reads' = reads + 1
    /\ trace' = Append(trace, Plain("interrupt"))
    /\ UNCHANGED <<command_info, cmdqueue, lastcmd, stack, flight, called>>

\* core.py:216-217 : stop = await self.onecmd(line); stop = postcmd(stop, line)
LoopPostcmd ==
    /\ Resumed("cmdloop_async", "onecmd", "return")
    /\ stack' = [stack EXCEPT ![Len(stack)].pc = "enter", ![Len(stack)].stop = flight.value]
    /\ flight' = NoFlight
    /\ trace' = Append(trace, Event("postcmd", Top.line, <<>>, <<>>))
    /\ UNCHANGED <<command_info, cmdqueue, lastcmd, called, reads>>

\* an exception leaves the loop with no finally clause in its way
LoopRaisedBare ==
    /\ Resumed("cmdloop_async", "onecmd", "raise")
    /\ EndFrame(flight, <<>>)
    /\ UNCHANGED lastcmd

\* core.py:218-219 : an exception leaves the loop through finally: postloop
LoopRaised ==
    /\ Resumed("cmdloop_async", "onecmd", "raise")
    /\ EndFrame(flight, <<Plain("postloop")>>)
    /\ UNCHANGED lastcmd

\* core.py:326 : parseline raised
OnecmdParseRaises(p) ==
    /\ p.raises
    /\ EndFrame(Raise("ValueError"), <<Event("onecmd", Top.line, <<>>, <<>>)>>)
    /\ UNCHANGED lastcmd

\* core.py:327-328 : if not _line: return await self.emptyline()
OnecmdEmptyline(p) ==
    /\ ~p.raises
    /\ p.line = <<>>
    /\ stack' = Await("emptyline", Frame("emptyline", <<>>, <<>>, <<>>))
    /\ trace' = Append(trace, Event("onecmd", Top.line, <<>>, <<>>))
    /\ UNCHANGED <<command_info, cmdqueue, lastcmd, flight, called, reads>>

\* core.py:329-330 : if not cmd: return await self.default(_line)
OnecmdNoCmd(p) ==
    /\ ~p.raises
    /\ p.line # <<>>
    /\ p.none
    /\ EndFrame(Return(DefaultResult(p.line)),
                <<Event("onecmd", Top.line, <<>>, <<>>)>> \o DefaultEvents(p.line))
    /\ UNCHANGED lastcmd

\* self.lastcmd = line for every line that has a command name
LastcmdAlways(line) == line

\* core.py:331-332 : if line != "EOF": self.lastcmd = line
LastcmdAfter(line) == IF line # EOF THEN line ELSE lastcmd

\* core.py:335 : info is None or info.disabled
Unavailable(k) == IF k = 0 THEN TRUE ELSE command_info[k].disabled

\* core.py:334-336 : info is None or info.disabled: return await self.default(line)
OnecmdDefault(p, k) ==
    /\ ~p.raises
    /\ ~p.none
    /\ Unavailable(k)
    /\ lastcmd' = LastcmdAfter(Top.line)
    /\ EndFrame(Return(DefaultResult(Top.line)),
                <<Event("onecmd", Top.line, p.cmd, p.arg)>> \o DefaultEvents(Top.line))

\* core.py:337-339 : result = await info.cmd_func(arg)
OnecmdCmdFunc(p, k) ==
    /\ ~p.raises
    /\ ~p.none
    /\ ~Unavailable(k)
    /\ lastcmd' = LastcmdAfter(Top.line)
    /\ stack' = Await("cmd_func", Frame("cmd_func", Top.line, p.cmd, p.arg))
    /\ trace' = Append(trace, Event("onecmd", Top.line, p.cmd, p.arg))
    /\ UNCHANGED <<command_info, cmdqueue, flight, called, reads>>

\* onecmd up to its first await or return, core.py:326-339
OnecmdParsed(p) ==
    \/ OnecmdParseRaises(p)
    \/ OnecmdEmptyline(p)
    \/ OnecmdNoCmd(p)
    \/ OnecmdDefault(p, InfoOf(command_info, p.cmd))
    \/ OnecmdCmdFunc(p, InfoOf(command_info, p.cmd))

OnecmdEnter ==
    /\ At("onecmd", "enter")
    /\ OnecmdParsed(Parseline(command_info, Top.line))

\* core.py:328 : return await self.emptyline(), its value or its exception
OnecmdFromEmptyline ==
    /\ stack # <<>>
    /\ flight.kind # "none"
    /\ Top.fn = "onecmd"
    /\ Top.pc = "emptyline"
    /\ EndFrame(flight, <<>>)
    /\ UNCHANGED lastcmd

\* core.py:345 : return bool(result) if result is not None else None
OnecmdResult(v) == IF v = None THEN None ELSE Bool(v)

OnecmdFromCmdFunc ==
    /\ Resumed("onecmd", "cmd_func", "return")
    /\ EndFrame(Return(OnecmdResult(flight.value)), <<>>)
    /\ UNCHANGED lastcmd

\* core.py:340-344 : except (Exception, SystemExit): self.pexcept(); return
\*                   except KeyboardInterrupt: return
OnecmdExcept ==
    /\ Resumed("onecmd", "cmd_func", "raise")
    /\ flight.value \in Caught
    /\ EndFrame(Return(None),
                IF flight.value = "KeyboardInterrupt" THEN <<>> ELSE <<Plain("pexcept")>>)
    /\ UNCHANGED lastcmd

\* core.py:338-344 : no except clause matches, the exception leaves onecmd
OnecmdUncaught ==
    /\ Resumed("onecmd", "cmd_func", "raise")
    /\ flight.value \notin Caught
    /\ EndFrame(flight, <<>>)
    /\ UNCHANGED lastcmd

\* emptyline, core.py:347-357
EmptylineEnter ==
    /\ At("emptyline", "enter")
    /\ IF lastcmd # <<>>
       THEN /\ stack' = Await("onecmd", Frame("onecmd", lastcmd, <<>>, <<>>))
            /\ trace' = Append(trace, Plain("emptyline"))
            /\ UNCHANGED <<command_info, cmdqueue, flight, called, reads>>
       ELSE EndFrame(Return(None), <<Plain("emptyline")>>)
    /\ UNCHANGED lastcmd

\* emptyline ends with None whatever the onecmd it awaited gave
EmptylineDropsResult ==
    /\ stack # <<>>
    /\ flight.kind # "none"
    /\ Top.fn = "emptyline"
    /\ Top.pc = "onecmd"
    /\ stack' = Caller
    /\ flight' = Return(None)
    /\ UNCHANGED <<command_info, cmdqueue, lastcmd, called, trace, reads>>

\* core.py:356 : return await self.onecmd(self.lastcmd), its value or its exception
EmptylineDone ==
    /\ stack # <<>>
    /\ flight.kind # "none"
    /\ Top.fn = "emptyline"
    /\ Top.pc = "onecmd"
    /\ EndFrame(flight, <<>>)
    /\ UNCHANGED lastcmd

\* the command function runs and returns v
CmdFuncReturns(v) ==
    /\ At("cmd_func", "enter")
    /\ EndFrame(Return(v), <<Event("cmd_func", Top.line, Top.cmd, Top.arg)>>)
    /\ UNCHANGED lastcmd

\* the command function runs and raises e
CmdFuncRaises(e) ==
    /\ At("cmd_func", "enter")
    /\ EndFrame(Raise(e), <<Event("cmd_func", Top.line, Top.cmd, Top.arg)>>)
    /\ UNCHANGED lastcmd

\* the steps the coroutines take by themselves: no call from outside, no input, no
\* command function
StepCmd ==
    \/ LoopStops
    \/ QueuePop
    \/ LoopPostcmd
    \/ LoopRaised
    \/ OnecmdEnter
    \/ OnecmdFromEmptyline
    \/ OnecmdFromCmdFunc
    \/ OnecmdExcept
    \/ OnecmdUncaught
    \/ EmptylineEnter
    \/ EmptylineDone

NextCmd ==
    /\ UNCHANGED dvars
    /\ UNCHANGED cvars
    /\ UNCHANGED rvars
    /\ UNCHANGED kvars
    /\ UNCHANGED tvars
    /\ \/ \E l \in LastCmds : SetLastcmd(l)
       \/ \E line \in CmdLines : CallParseline(line)
       \/ \E line \in CmdLines : CallDefault(line)
       \/ \E line \in CmdLines : CallOnecmd(line)
       \/ CallEmptyline
       \/ CallGetVisibleCommands
       \/ CallCompleter
       \/ \E q \in Queues : CallCmdloopAsync(q)
       \/ \E line \in LoopLines : InputLine(line)
       \/ InputEOF
       \/ InputInterrupt
       \/ \E v \in CmdRetVals : CmdFuncReturns(v)
       \/ \E e \in CmdRaisable : CmdFuncRaises(e)
       \/ StepCmd

SpecCmd == InitCmd /\ [][NextCmd]_vars


(***************************************************************************)
(* The classes of core.py: BaseCmd.__commands__ is one set, made when the  *)
(* class statement of BaseCmd runs; __init_subclass__ runs for every class *)
(* derived from it, and __init__ builds command_info from the set.         *)
(***************************************************************************)
\* how many instances are constructed
MaxInstances == 2

\* the class statements: Cmd as in core.py:450-559, and classes an application derives
ClassDefs ==
    {[name |-> "Cmd", base |-> "BaseCmd", declares |-> {"do_help", "do_exit"}],
     [name |-> "App", base |-> "BaseCmd", declares |-> {"do_run"}],
     [name |-> "Shell", base |-> "Cmd", declares |-> {"do_shell"}]}

BaseCmdClass == [name |-> "BaseCmd", base |-> None, declares |-> {}]

ClassNames(cs) == {cs[k].name : k \in DOMAIN cs}
ClassNamed(cs, n) == cs[CHOOSE k \in DOMAIN cs : cs[k].name = n]

\* the class n and its bases, the classes dir(cls) collects names from
RECURSIVE Mro(_, _)
Mro(cs, n) == IF n = None THEN {} ELSE {n} \cup Mro(cs, ClassNamed(cs, n).base)

\* core.py:444-447 : the do_* names of dir(cls)
CommandNamesOf(cs, n) == UNION {ClassNamed(cs, m).declares : m \in Mro(cs, n)}

\* cls.__commands__ : no class statement of core.py assigns __commands__ again, so the
\* attribute of every class is the set object of BaseCmd (core.py:86)
ClassCommands(n, shared) == shared

\* __init_subclass__, core.py:443-447 : cls.__commands__.add(getattr(cls, name))
InitSubclass(cs, n, shared) == ClassCommands(n, shared) \cup CommandNamesOf(cs, n)

InitClasses ==
    /\ DispatchIdle
    /\ CompleterIdle
    /\ RequestsIdle
    /\ CmdIdle
    /\ TreeIdle
    /\ classes = <<BaseCmdClass>>
    /\ __commands__ = {}
    /\ instances = <<>>

\* a class statement runs: the class is made, then __init_subclass__ of its base
DefineClass(c) ==
    /\ c.name \notin ClassNames(classes)
    /\ c.base \in ClassNames(classes)
    /\ classes' = Append(classes, c)
    /\ __commands__' = InitSubclass(Append(classes, c), c.name, __commands__)
    /\ UNCHANGED instances

\* BaseCmd.__init__, core.py:177-179 : command_info is built from self.__commands__
Construct(n) ==
    /\ n \in ClassNames(classes)
    /\ Len(instances) < MaxInstances
    /\ instances' = Append(instances,
                           [cls |-> n, command_info |-> ClassCommands(n, __commands__)])
    /\ UNCHANGED <<classes, __commands__>>

NextClasses ==
    /\ UNCHANGED dvars
    /\ UNCHANGED cvars
    /\ UNCHANGED rvars
    /\ UNCHANGED bvars
    /\ UNCHANGED tvars
    /\ \/ \E c \in ClassDefs : DefineClass(c)
       \/ \E n \in {"BaseCmd", "Cmd", "App", "Shell"} : Construct(n)

SpecClasses == InitClasses /\ [][NextClasses]_vars

(***************************************************************************)
(* The Command objects and their parsers: Command.__init__, add_subcommand *)
(* and _ensure_subparsers, command.py:58-87, 115-138, 211-223              *)
(***************************************************************************)
\* the most Command objects created, and the most decorators kept
MaxCommands == 4
MaxDecorators == 1

\* the names subcommands are added under
SubNames == {"a", "b"}

\* an action of a parser; choices maps the names of a _SubParsersAction to the parsers
\* add_parser made, each known by the Command that owns it
ParserAction(kind) == [kind |-> kind, choices |-> {}]

\* a parser as build_parser returns it, and one that was given subparsers by its maker
ArgumentParser == [actions |-> <<ParserAction("help")>>]
ParserWithSubparsers == [actions |-> <<ParserAction("help"), ParserAction("subparsers")>>]

\* the places of the _SubParsersAction objects among parser._actions
Slots(parser) == {k \in DOMAIN parser.actions : parser.actions[k].kind = "subparsers"}

\* _ensure_subparsers that adds a subparsers action without looking for one
EnsureSubparsersAnew(parser) ==
    [parser |-> [parser EXCEPT !.actions = Append(@, ParserAction("subparsers"))],
     action |-> Len(parser.actions) + 1]

\* _ensure_subparsers, command.py:220-223 : the first _SubParsersAction of the parser,
\* or a new one
EnsureSubparsers(parser) ==
    IF Slots(parser) # {}
    THEN [parser |-> parser,
          action |-> CHOOSE k \in Slots(parser) : \A j \in Slots(parser) : k <= j]
    ELSE [parser |-> [parser EXCEPT !.actions = Append(@, ParserAction("subparsers"))],
          action |-> Len(parser.actions) + 1]

\* the names subparser_action holds
NamesOf(parser, action) == {c.name : c \in parser.actions[action].choices}

\* Command.__init__, command.py:71-87
NewCommand(name, parent, parser) == [cmd_name |-> name, _parent |-> parent, parser |-> parser]

\* Command(func, cmd_name=name), with a parser of its own or a given one
CreateCommand(name, parser) ==
    /\ Len(commands) < MaxCommands
    /\ commands' = Append(commands, NewCommand(name, 0, parser))
    /\ UNCHANGED decorators

\* inner(func), command.py:126-134 : subparser_action.add_parser(name) makes the parser
\* of the new Command, whose _parent is self; argparse raises for a name that is taken
Inner(cmds, self, name, action) ==
    /\ Len(cmds) < MaxCommands
    /\ name \notin NamesOf(cmds[self].parser, action)
    /\ commands' = Append(
          [cmds EXCEPT ![self].parser.actions[action].choices =
               @ \cup {[name |-> name, parser |-> Len(cmds) + 1]}],
          NewCommand(name, self, ArgumentParser))

\* the commands after self._ensure_subparsers()
Ensured(self, e) == [commands EXCEPT ![self].parser = e.parser]

\* add_subcommand(name, func), command.py:125-138
AddSubcommandTo(self, name, e) ==
    /\ Inner(Ensured(self, e), self, name, e.action)
    /\ UNCHANGED decorators

AddSubcommand(self, name) == AddSubcommandTo(self, name, EnsureSubparsers(commands[self].parser))

\* add_subcommand(name), command.py:125-136 : the decorator is returned
AddSubcommandLater(self, name, e) ==
    /\ Cardinality(decorators) < MaxDecorators
    /\ commands' = Ensured(self, e)
    /\ decorators' = decorators \cup {[self |-> self, name |-> name, action |-> e.action]}

AddSubcommandDecorator(self, name) ==
    AddSubcommandLater(self, name, EnsureSubparsers(commands[self].parser))

\* the decorator is applied to a function
ApplyDecorator(d) ==
    /\ Inner(commands, d.self, d.name, d.action)
    /\ UNCHANGED decorators

InitTree ==
    /\ DispatchIdle
    /\ CompleterIdle
    /\ RequestsIdle
    /\ CmdIdle
    /\ ClassesIdle
    /\ commands = <<>>
    /\ decorators = {}

NextTree ==
    /\ UNCHANGED dvars
    /\ UNCHANGED cvars
    /\ UNCHANGED rvars
    /\ UNCHANGED bvars
    /\ UNCHANGED kvars
    /\ \/ \E p \in {ArgumentParser, ParserWithSubparsers} : CreateCommand("root", p)
       \/ \E self \in DOMAIN commands : \E name \in SubNames : AddSubcommand(self, name)
       \/ \E self \in DOMAIN commands : \E name \in SubNames : AddSubcommandDecorator(self, name)
       \/ \E d \in decorators : ApplyDecorator(d)

SpecTree == InitTree /\ [][NextTree]_vars

\* the shortcuts the stripped line begins with
ShortcutsOf(line) == {k \in DOMAIN Shortcuts : StartsWith(line, Shortcuts[k].shortcut)}

\* the text after the shortcut k
AfterShortcut(line, k) == SubSeq(line, Len(Shortcuts[k].shortcut) + 1, Len(line))

\* what the four cases of parseline give for a stripped line, as far as they name it:
\* whether command and arguments are None, and the line given back
ExpectedParse(infos, line, value) ==
    IF line = <<>> THEN value.none /\ value.line = <<>>
    ELSE IF ShortcutsOf(line) = {}
    THEN /\ ~value.none
         /\ <<value.cmd>> \o value.arg = ShlexSplit(line).tokens
    ELSE LET k == CHOOSE k \in ShortcutsOf(line) : TRUE
         IN  IF InfoOf(infos, Shortcuts[k].cmd_name) = 0
             THEN value.none /\ value.line = line
             ELSE /\ ~value.none
                  /\ value.cmd = Shortcuts[k].cmd_name
                  /\ value.arg = ShlexSplit(AfterShortcut(line, k)).tokens
                  /\ value.line = Shortcuts[k].cmd_name \o <<" ">> \o AfterShortcut(line, k)

\* C23: parseline gives (None, None, '') for a blank line, the target name, the tokens
\* after the shortcut and the rewritten line for a shortcut whose target is registered,
\* (None, None, stripped line) for a shortcut whose target is not registered, and the
\* first token and the remaining tokens for any other line
C23_ParselineCases ==
    called.fn = "parseline" =>
        /\ flight.kind = "return"
        /\ ExpectedParse(command_info, Strip(called.line), flight.value)

\* the same for the lines shlex can split: they are given back as the claim says
C23_SplittableLines ==
    (called.fn = "parseline" /\ flight.kind = "return") =>
        ExpectedParse(command_info, Strip(called.line), flight.value)

\* the call made from outside has ended
CallEnded == called.fn # "none" /\ stack = <<>> /\ flight.kind # "none"

\* the calls of command functions so far, and the calls of default
CmdFuncCalls == SelectSeq(trace, LAMBDA e : e.ev = "cmd_func")
DefaultCalls == SelectSeq(trace, LAMBDA e : e.ev = "default")

\* the first word of a stripped line
RECURSIVE FirstWord(_)
FirstWord(line) ==
    IF line = <<>> \/ Head(line) = " " THEN <<>> ELSE <<Head(line)>> \o FirstWord(Tail(line))

\* onecmd was called with a line that is not blank and begins with no shortcut
PlainOnecmd ==
    /\ CallEnded
    /\ called.fn = "onecmd"
    /\ Strip(called.line) # <<>>
    /\ ShortcutsOf(Strip(called.line)) = {}

\* the first word of the line names a registered command that is not disabled
NamesCommand(line) == ~Unavailable(InfoOf(command_info, FirstWord(Strip(line))))

\* the handler was called once with the tokens after the first
HandledOnce(line) ==
    /\ Len(CmdFuncCalls) = 1
    /\ CmdFuncCalls[1].cmd = FirstWord(Strip(line))
    /\ <<CmdFuncCalls[1].cmd>> \o CmdFuncCalls[1].arg = ShlexSplit(Strip(line)).tokens
    /\ DefaultCalls = <<>>

\* the handler has returned to the onecmd that was called from outside
HandlerReturned ==
    /\ called.fn = "onecmd"
    /\ Len(stack) = 1
    /\ Resumed("onecmd", "cmd_func", "return")

\* onecmd returns None for None and bool(result) for any other result of the handler
ReturnsBoolOfResult ==
    HandlerReturned =>
        /\ flight'.kind = "return"
        /\ flight.value = None => flight'.value = None
        /\ flight.value \in {"True", "obj"} => flight'.value = "True"
        /\ flight.value \in {"False", "empty"} => flight'.value = "False"

\* no handler was called and the line went to default
WentToDefault(line) ==
    /\ CmdFuncCalls = <<>>
    /\ Len(DefaultCalls) = 1
    /\ DefaultCalls[1].line = line

\* which of the two cases of the claim happened
DispatchedAsNamed(line) ==
    IF NamesCommand(line) THEN HandledOnce(line) ELSE WentToDefault(line)

\* C22: for a line whose first token names a registered command that is not disabled,
\* onecmd calls its handler exactly once with the remaining tokens and returns None for
\* None and bool(result) otherwise; for any other first token no handler is called and
\* the line goes to default
C22_OnecmdDispatch ==
    /\ [](PlainOnecmd => DispatchedAsNamed(called.line))
    /\ [][ReturnsBoolOfResult]_vars

\* the same for the lines shlex can split
C22_SplittableLines ==
    /\ []((PlainOnecmd /\ ShlexSplit(Strip(called.line)).ok) => DispatchedAsNamed(called.line))
    /\ [][ReturnsBoolOfResult]_vars

\* an empty line was given to the instance from outside, and the call has ended
BlankCallEnded ==
    /\ CallEnded
    /\ \/ called.fn = "emptyline"
       \/ called.fn = "onecmd" /\ Strip(called.line) = <<>>

\* the events that do something: every one but the entry of the call itself
Deeds ==
    SelectSeq(trace, LAMBDA e : e.ev # "emptyline" /\ ~(e.ev = "onecmd" /\ Strip(e.line) = <<>>))

\* the lines onecmd was entered with below the call
Reexecuted == SelectSeq(Deeds, LAMBDA e : e.ev = "onecmd")

\* emptyline, or the onecmd that awaited it, gets what the call below it gave
EmptylineResumed ==
    /\ stack # <<>>
    /\ flight.kind # "none"
    /\ \/ Top.fn = "emptyline" /\ Top.pc = "onecmd"
       \/ Top.fn = "onecmd" /\ Top.pc = "emptyline"

\* and hands the same on to its caller
PassesResult == EmptylineResumed => (flight' = flight /\ stack' = Caller)

\* C24: with lastcmd empty an empty line does nothing and returns None; with lastcmd
\* set it runs onecmd(lastcmd) exactly once, nothing else, and returns what that returned
C24_EmptylineRepeatsLast ==
    /\ [](BlankCallEnded =>
            IF lastcmd = <<>> THEN Deeds = <<>> /\ flight = Return(None)
            ELSE Len(Reexecuted) = 1 /\ Reexecuted[1].line = lastcmd /\ Deeds[1].ev = "onecmd")
    /\ [][PassesResult]_vars

\* an empty line re-executed a command whose handler ended the call with True
C24_Witness ==
    /\ BlankCallEnded
    /\ called.fn = "onecmd"
    /\ lastcmd = HELP
    /\ flight = Return("True")
    /\ Len(CmdFuncCalls) = 1

\* where in the trace input_line raised EOFError, 0 if it did not
EofAt ==
    LET at == {k \in DOMAIN trace : trace[k].ev = "eof"}
    IN  IF at = {} THEN 0 ELSE CHOOSE k \in at : \A j \in at : k <= j

\* input_line raised EOFError in the loop that was called
EofSeen == called.fn = "cmdloop_async" /\ \E k \in DOMAIN trace : trace[k].ev = "eof"

\* what the loop does with the line EOF when no command has that name: onecmd gives it
\* to default between the two hooks, and the loop ends
EofDispatch ==
    <<Event("eof", EOF, <<>>, <<>>), Event("precmd", EOF, <<>>, <<>>),
      Event("onecmd", EOF, EOF, <<>>), Event("default", EOF, <<>>, <<>>),
      Event("postcmd", EOF, <<>>, <<>>), Plain("postloop")>>

IsPrefix(s, t) == Len(s) <= Len(t) /\ s = SubSeq(t, 1, Len(s))

\* default was called from outside: True for EOF, else None after the report
DefaultAnswers ==
    called.fn = "default" =>
        /\ flight = Return(IF called.line = EOF THEN "True" ELSE None)
        /\ called.line # EOF <=> \E k \in DOMAIN trace : trace[k] = Event("perror", called.line, <<>>, <<>>)

\* after EOFError the loop does nothing but dispatch EOF and end with None
EofEndsLoop ==
    EofSeen =>
        /\ IsPrefix(SubSeq(trace, EofAt, Len(trace)), EofDispatch)
        /\ CallEnded => (flight = Return(None) /\ Len(trace) = EofAt + 5)

\* after EOFError no input is read, and nothing is taken from the queue
NoInputAfterEof == reads' = reads /\ cmdqueue' = cmdqueue

\* how many steps the loop is from its end once the input has ended: onecmd to enter,
\* its result to take, the test of stop
StepsLeft ==
    IF stack = <<>> THEN 0
    ELSE IF Len(stack) > 1 THEN 3
    ELSE IF flight.kind # "none" THEN 2
    ELSE 1

\* after EOFError every step brings the loop nearer to its end
NearerToEnd == StepsLeft' < StepsLeft

\* after EOFError the loop has ended or can take a step by itself, without input
CanGoOn == (EofSeen /\ ~CallEnded) => ENABLED StepCmd

\* C25: default('EOF') returns True and default of any other line returns None after
\* reporting an unknown command; when input_line raises EOFError the loop dispatches
\* the line EOF and cmdloop_async stops without reading further input: it is never
\* stuck, and each of its steps brings it nearer to its return
C25_EofStopsLoop ==
    /\ [](DefaultAnswers /\ EofEndsLoop /\ CanGoOn)
    /\ [][EofSeen => (NoInputAfterEof /\ NearerToEnd)]_vars

\* the loop read a line, then the input ended, and cmdloop_async has returned
C25_Witness ==
    /\ called.fn = "cmdloop_async"
    /\ CallEnded
    /\ EofAt > 2
    /\ reads = 2
    /\ \E k \in DOMAIN trace : trace[k].ev = "read"

\* the names of the registered commands that are neither hidden nor disabled
VisibleNames ==
    {command_info[k].name : k \in {j \in DOMAIN command_info :
                                      ~command_info[j].hidden /\ ~command_info[j].disabled}}

\* the names of the registered commands that are hidden or disabled
ConcealedNames ==
    {command_info[k].name : k \in {j \in DOMAIN command_info :
                                      command_info[j].hidden \/ command_info[j].disabled}}

\* C26: get_visible_commands returns exactly the names of the registered commands that
\* are neither hidden nor disabled; the completer is built with completers for exactly
\* those commands and for exactly the shortcuts whose target is one of them, each with
\* its target's completer; a hidden or disabled command is never offered
C26_OnlyVisibleOffered ==
    /\ called.fn = "get_visible_commands" =>
          /\ SeqRange(flight.value) = VisibleNames
          /\ Len(flight.value) = Cardinality(VisibleNames)
    /\ called.fn = "completer" =>
          /\ flight.value.cmd_completer_options = VisibleNames
          /\ flight.value.cmd_completer_options \cap ConcealedNames = {}
          /\ \A k \in DOMAIN Shortcuts :
                Shortcuts[k].cmd_name \in VisibleNames
                    <=> Shortcuts[k] \in flight.value.shortcut_completers
          /\ \A s \in flight.value.shortcut_completers :
                s \in SeqRange(Shortcuts) /\ s.cmd_name \notin ConcealedNames

\* the completer was built while exit was disabled and help was not: help and its
\* shortcut are offered, exit is not
C26_Witness ==
    /\ called.fn = "completer"
    /\ command_info[2].disabled
    /\ flight.value.cmd_completer_options = {HELP}
    /\ Shortcuts[1] \in flight.value.shortcut_completers


\* the loop is the call made from outside
LoopCalled == called.fn = "cmdloop_async"

\* where the loop took a line from the queue, and the lines it took, in order
PopsAt == {k \in DOMAIN trace : trace[k].ev = "pop"}
PopEvents == SelectSeq(trace, LAMBDA e : e.ev = "pop")
Popped == [k \in DOMAIN PopEvents |-> PopEvents[k].line]

\* where the loop took a line, from the queue or from the input
TakesAt == {k \in DOMAIN trace : trace[k].ev \in {"pop", "read", "eof"}}

\* what was done for the line taken at k: the events up to the next line taken
SegmentEnd(k) ==
    LET later == {j \in TakesAt : j > k} \cup {j \in DOMAIN trace : j > k /\ trace[j].ev = "postloop"}
    IN  IF later = {} THEN Len(trace) ELSE (CHOOSE j \in later : \A i \in later : j <= i) - 1
Segment(k) == SubSeq(trace, k + 1, SegmentEnd(k))

\* the onecmd event names a registered command that is not disabled
Resolves(e) == e.ev = "onecmd" /\ e.cmd # <<>> /\ ~Unavailable(InfoOf(command_info, e.cmd))

\* the line taken at k was executed once: onecmd was entered with it after precmd, and a
\* handler was called exactly for the command the line, or the lastcmd an empty line
\* repeats, resolves to
ExecutedOnce(k) ==
    LET seg == Segment(k)
        resolved == SelectSeq(seg, Resolves)
        handled == SelectSeq(seg, LAMBDA e : e.ev = "cmd_func")
    IN  /\ Len(seg) >= 2
        /\ seg[1].ev = "precmd" /\ seg[1].line = trace[k].line
        /\ seg[2].ev = "onecmd" /\ seg[2].line = trace[k].line
        /\ Len(resolved) <= 1
        /\ Len(handled) = Len(resolved)
        /\ resolved # <<>> => (handled[1].cmd = resolved[1].cmd /\ handled[1].arg = resolved[1].arg)

\* a queued EOF line has ended the loop: it was the last line taken
QueuedEofEnded ==
    /\ LoopCalled
    /\ CallEnded
    /\ flight = Return(None)
    /\ PopEvents # <<>>
    /\ PopEvents[Len(PopEvents)].line = EOF
    /\ reads = 0

\* the lines taken so far and the lines still queued are the queue the loop found:
\* the lines are taken from the head, in order, none twice
TakenInOrder == LoopCalled => Popped \o cmdqueue = called.queue

\* while the queue holds a line no input is read, and the queue changes only by the
\* loop taking its head
TakesHead ==
    (LoopCalled /\ cmdqueue # <<>>) =>
        /\ reads' = reads
        /\ \/ cmdqueue' = cmdqueue
           \/ /\ cmdqueue' = Tail(cmdqueue)
              /\ trace' = trace \o <<Event("pop", Head(cmdqueue), <<>>, <<>>),
                                      Event("precmd", Head(cmdqueue), <<>>, <<>>)>>

\* the loop is about to take a line, or has ended
BetweenLines == LoopCalled /\ (CallEnded \/ At("cmdloop_async", "enter"))

\* C21 as stated: once a queued EOF line has ended the loop, cmdqueue is empty and the
\* handler of every earlier queued command has been called exactly once
C21_QueueEmptyAfterEof ==
    /\ TakenInOrder
    /\ QueuedEofEnded =>
          /\ cmdqueue = <<>>
          /\ \A k \in PopsAt : ExecutedOnce(k)

\* C21: while cmdqueue holds a line the loop takes its head and reads no input; the
\* lines are taken in FIFO order, none twice; once a queued EOF line has ended the loop
\* every line queued before it has been executed exactly once, its handler called
\* exactly once, and the lines queued after the EOF are still in cmdqueue (a line that
\* ends the loop, by a true result or by an exception, leaves the rest queued as well)
C21_QueueFifoUntilEof ==
    /\ [](TakenInOrder /\ (BetweenLines => \A k \in PopsAt : ExecutedOnce(k)))
    /\ [](QueuedEofEnded =>
            /\ \A k \in PopsAt : ExecutedOnce(k)
            /\ \A i \in 1..(Len(Popped) - 1) : Popped[i] # EOF
            /\ cmdqueue = SubSeq(called.queue, Len(Popped) + 1, Len(called.queue)))
    /\ [][TakesHead]_vars

\* a queue of two lines whose first is EOF: the loop has ended and the second is still queued
C21_Witness ==
    /\ QueuedEofEnded
    /\ Len(called.queue) = 2
    /\ cmdqueue = <<HELP \o <<" ", "x">>>>

\* an instance of BaseCmd itself was made after a subclass with commands was defined
BaseAfterSubclass ==
    \E i \in DOMAIN instances : instances[i].cls = "BaseCmd" /\ Len(classes) > 1

\* C27: an instance of BaseCmd itself has an empty command_info whatever subclasses
\* were defined before, and the command_info of an instance of any class holds only
\* the commands of that class and of its bases, never those of an unrelated class
C27_RegistryPerClass ==
    \A i \in DOMAIN instances :
        /\ instances[i].cls = "BaseCmd" => instances[i].command_info = {}
        /\ instances[i].command_info \subseteq CommandNamesOf(classes, instances[i].cls)

\* ---------------------------------------------------------------------------
\* Stream redirection of invoke_from_argv (command.py:140-167)
\* ---------------------------------------------------------------------------

\* invoke_from_argv binds old_stdin, old_stdout, old_stderr to the streams it finds
SavesEntryStreams ==
    (dpc = "idle" /\ dpc' = "parsing") => old_streams' = streams

\* the streams change only on entering and on leaving the parse
ChangesOnlyAroundParse ==
    (dpc # "parsing" /\ dpc' # "parsing") => streams' = streams

\* a step that leaves the parse, whichever way it ends, puts the streams back
ParseEndRestores ==
    (dpc = "parsing" /\ dpc' # "parsing") =>
        /\ parse_end' \in {"ok", "SystemExit", "raised"}
        /\ streams' = old_streams

\* a handler of the chain is being invoked
HandlerInvoked == dpc = "handler" \/ calls # <<>>

\* C38: invoke_from_argv redirects sys.stdin, sys.stdout and sys.stderr only while the
\* arguments are parsed: during the parse they are the command's streams; when the parse
\* ends by success, by SystemExit or by another exception they are again the values they
\* had on entry; and they are restored before any handler of the chain is invoked.
C38_StreamsRedirectedOnlyWhileParsing ==
    /\ [](dpc = "parsing" => streams = CmdStreams)
    /\ [](dpc # "parsing" => streams \in EntryStreams)
    /\ []((entry = "argv" /\ dpc # "parsing") => streams = old_streams)
    /\ []((entry = "argv" /\ HandlerInvoked) => streams = old_streams)
    /\ [][SavesEntryStreams /\ ChangesOnlyAroundParse /\ ParseEndRestores]_vars

\* a handler runs after a parse that was entered with the caller's replaced streams
C38_Witness ==
    /\ entry = "argv"
    /\ parse_end = "ok"
    /\ dpc = "handler"
    /\ old_streams = ProxyStreams
    /\ streams = ProxyStreams

\* ---------------------------------------------------------------------------
\* What a command function raises (core.py:338-345, 204-219)
\* ---------------------------------------------------------------------------

\* the command function has raised e and onecmd is about to handle it
CmdFuncRaised(e) == Resumed("onecmd", "cmd_func", "raise") /\ flight.value = e

\* onecmd ends with None after adding events to the trace
OnecmdGivesNone(events) ==
    /\ stack' = Caller
    /\ flight' = Return(None)
    /\ trace' = trace \o events

\* Exception and SystemExit are reported once, KeyboardInterrupt is not reported
CatchesAndReports ==
    /\ (CmdFuncRaised("Exception") \/ CmdFuncRaised("SystemExit"))
           => OnecmdGivesNone(<<Plain("pexcept")>>)
    /\ CmdFuncRaised("KeyboardInterrupt") => OnecmdGivesNone(<<>>)

\* the loop receives None from onecmd: it stays in the loop and postloop is not run
LoopGoesOn ==
    (Resumed("cmdloop_async", "onecmd", "return") /\ flight.value = None) =>
        /\ Len(stack') = Len(stack)
        /\ stack'[Len(stack)].pc = "enter"
        /\ ~Truthy(stack'[Len(stack)].stop)
        /\ \A i \in DOMAIN trace' : trace'[i].ev # "postloop"

\* any other condition leaves onecmd unreported
OthersPropagate ==
    CmdFuncRaised("CancelledError") =>
        /\ stack' = Caller
        /\ flight' = flight
        /\ trace' = trace

\* and ends the loop, after postloop
EscapeEndsLoop ==
    Resumed("cmdloop_async", "onecmd", "raise") =>
        /\ stack' = Caller
        /\ flight' = flight
        /\ trace' = Append(trace, Plain("postloop"))

\* C35 (its first sentence): whatever the command function raises, onecmd returns None
C35_NoConditionEndsSession ==
    [][\A e \in CmdRaisable : CmdFuncRaised(e) => flight' = Return(None)]_vars

\* C35, amended: an Exception or SystemExit raised by the command function is reported
\* once through pexcept and onecmd returns None, a KeyboardInterrupt gives None without a
\* report, and in both cases the loop does not stop; a condition that is none of the
\* three (asyncio.CancelledError) leaves onecmd and ends the loop after postloop.
C35_CaughtConditionsKeepLoop ==
    [][CatchesAndReports /\ LoopGoesOn /\ OthersPropagate /\ EscapeEndsLoop]_vars

\* the loop took another line after a command function's exception was reported
C35_Witness ==
    /\ called.fn = "cmdloop_async"
    /\ \E i \in DOMAIN trace : \E j \in DOMAIN trace :
        /\ i < j
        /\ trace[i].ev = "pexcept"
        /\ trace[j].ev \in {"pop", "read", "eof"}

\* ---------------------------------------------------------------------------
\* The hooks of cmdloop_async (core.py:192-219)
\* ---------------------------------------------------------------------------

\* where in the trace the hook ev ran
HookAt(ev) == {k \in DOMAIN trace : trace[k].ev = ev}

\* the calls of precmd and postcmd, in order
CmdHooks == SelectSeq(trace, LAMBDA e : e.ev \in {"precmd", "postcmd"})

\* preloop ran once, before anything else
PreloopFirst ==
    /\ trace # <<>>
    /\ HookAt("preloop") = {1}

\* precmd gets the line the loop has just taken, and onecmd gets it next
PrecmdBeforeCommand ==
    \A k \in HookAt("precmd") :
        /\ k - 1 \in TakesAt
        /\ trace[k - 1].line = trace[k].line
        /\ k < Len(trace) => (trace[k + 1].ev = "onecmd" /\ trace[k + 1].line = trace[k].line)

\* precmd and postcmd take turns, precmd first, each postcmd for the line of the
\* precmd before it
HooksTakeTurns ==
    \A i \in DOMAIN CmdHooks :
        /\ CmdHooks[i].ev = (IF i % 2 = 1 THEN "precmd" ELSE "postcmd")
        /\ i % 2 = 0 => CmdHooks[i].line = CmdHooks[i - 1].line

\* postcmd has run for every line but one that is still in onecmd or whose onecmd raised
PostcmdAfterCommand ==
    /\ BetweenLines /\ flight.kind # "raise" => Len(CmdHooks) % 2 = 0
    /\ \A k \in HookAt("postcmd") : \E j \in DOMAIN trace :
          j < k /\ trace[j].ev = "onecmd" /\ trace[j].line = trace[k].line

\* postloop has run once the loop has ended, by a stop value or by an exception, and
\* not before; nothing follows it
PostloopLast ==
    /\ HookAt("postloop") = (IF CallEnded THEN {Len(trace)} ELSE {})
    /\ CallEnded => flight.kind \in {"return", "raise"}

\* the step of postcmd: what it returns is the new stop
PostcmdSetsStop ==
    (Len(stack) = 1 /\ HookAt("postcmd")' # HookAt("postcmd")) =>
        /\ flight.kind = "return"
        /\ stack'[1].stop = flight.value

\* at the test of the loop, it ends if and only if stop is true
StopsWhenTrue ==
    At("cmdloop_async", "enter") =>
        (Truthy(Top.stop) <=> (stack' = <<>> /\ flight' = Return(None)))

\* C36: preloop runs once before any line is processed; for every line precmd runs
\* before the command and postcmd after it when the command has returned; the loop
\* stops exactly when postcmd returns a true value; postloop runs exactly once on every
\* exit of cmdloop_async, by a stop value or by an exception that leaves the loop body,
\* and no line is processed after it
C36_LoopHooksOrdered ==
    /\ [](LoopCalled =>
            (PreloopFirst /\ PrecmdBeforeCommand /\ HooksTakeTurns /\ PostcmdAfterCommand
             /\ PostloopLast))
    /\ [][LoopCalled => (PostcmdSetsStop /\ StopsWhenTrue)]_vars

\* a line was processed between its hooks, then an exception left the loop body, and
\* postloop has run
C36_Witness ==
    /\ LoopCalled
    /\ CallEnded
    /\ flight.kind = "raise"
    /\ HookAt("postcmd") # {}
    /\ trace[Len(trace)] = Plain("postloop")

\* ---------------------------------------------------------------------------
\* lastcmd (core.py:326-336, 347-357)
\* ---------------------------------------------------------------------------

\* the step is onecmd entered with a line: parseline, then core.py:327-336
OnecmdEntered == At("onecmd", "enter")

\* what parseline makes of the line onecmd was entered with
EnteredParse == Parseline(command_info, Top.line)

\* the line has a command name and is not EOF
Recordable(line, p) == ~p.raises /\ ~p.none /\ p.line # <<>> /\ line # EOF

\* onecmd records such a line, and leaves lastcmd alone for a blank line, for EOF, for a
\* line parseline gives no command name for and for a line it raises on
RecordsNamedLines ==
    OnecmdEntered =>
        lastcmd' = (IF Recordable(Top.line, EnteredParse) THEN Top.line ELSE lastcmd)

\* during a call nothing but the entry of onecmd changes lastcmd
OnlyOnecmdRecords == (called.fn # "none" /\ ~OnecmdEntered) => lastcmd' = lastcmd

\* the onecmd events of lines that have a command name and are not EOF
RecordedLines ==
    SelectSeq(trace, LAMBDA e : e.ev = "onecmd" /\ e.cmd # <<>> /\ e.line # EOF)

\* lastcmd is the most recent of them
MostRecentNamed == RecordedLines # <<>> => lastcmd = RecordedLines[Len(RecordedLines)].line

\* lastcmd is empty or parses to a command name
NeverBlank ==
    lastcmd # <<>> =>
        LET p == Parseline(command_info, lastcmd)
        IN  /\ Strip(lastcmd) # <<>>
            /\ ~p.raises /\ ~p.none
            /\ lastcmd # EOF

\* the frames of fn on the stack
FramesOf(fn) == {k \in DOMAIN stack : stack[k].fn = fn}

\* emptyline is never entered from the onecmd it calls: an empty line causes at most
\* one nested onecmd
OneRedispatch ==
    /\ Cardinality(FramesOf("emptyline")) <= 1
    /\ \A k \in FramesOf("emptyline") :
          Cardinality({j \in FramesOf("onecmd") : j > k}) <= 1

\* C39: lastcmd is empty or the most recent line given to onecmd that had a command name
\* and was not EOF; it is never blank, so the onecmd that emptyline calls never reaches
\* emptyline again; blank lines, EOF and lines parseline rejects leave it unchanged
C39_LastcmdIsLastNamedLine ==
    /\ [](MostRecentNamed /\ NeverBlank /\ OneRedispatch)
    /\ [][RecordsNamedLines /\ OnlyOnecmdRecords]_vars

\* the loop recorded a line, then took an empty line, and emptyline has entered onecmd
\* with the recorded line
C39_Witness ==
    /\ LoopCalled
    /\ Len(RecordedLines) >= 1
    /\ FramesOf("emptyline") # {}
    /\ Top.fn = "onecmd"
    /\ Top.line = lastcmd
    /\ Len(stack) = 4

\* ---------------------------------------------------------------------------
\* The two slots of the replay (completer.py:145-150, 199-230)
\* ---------------------------------------------------------------------------

\* the replay is at the head of its loop
Replaying == cpc = "replay" /\ rs.status = "run"

\* the slot takes values and has not reached an integer maximum
MidArity(state) == IsSet(state) /\ ~ReachedMax(state)

\* both locals hold a slot
BothActive == IsSet(rs.pos_arg_state) /\ IsSet(rs.flag_arg_state)

\* a slot that has reached its maximum is not kept
NoFullSlot ==
    /\ IsSet(rs.pos_arg_state) => MidArity(rs.pos_arg_state)
    /\ IsSet(rs.flag_arg_state) => MidArity(rs.flag_arg_state)

\* the positional slot that waits behind a flag slot is not the remainder slot
WaitingSlotNotRemainder == BothActive => ~rs.pos_arg_state.is_remainder

\* while both slots are active the positional slot is left as it is: the flag slot, or
\* no slot, takes the token
FlagSlotTakesToken ==
    (Replaying /\ BothActive /\ cpc' # "idle" /\ rs'.level = rs.level) =>
        rs'.pos_arg_state = rs.pos_arg_state

\* a step gives its token to at most one slot
OneSlotPerToken ==
    (Replaying /\ cpc' = "replay" /\ rs'.level = rs.level) =>
        \/ rs'.consumed_arg_values = rs.consumed_arg_values
        \/ \E d \in DOMAIN rs'.consumed_arg_values :
              \A e \in DOMAIN rs'.consumed_arg_values \ {d} :
                  /\ e \in DOMAIN rs.consumed_arg_values
                  /\ rs'.consumed_arg_values[e] = rs.consumed_arg_values[e]

ExcludedChoices ==
    LET a == Parser(rs.g).actions[CompletedSlot]
    IN  {a.choices[k] : k \in {i \in DOMAIN a.choices :
            StartsWith(a.choices[i], rs.text) /\ ~InSeq(a.choices[i], Texts)}}

\* the slots of the completing grammar other than the completed one
OtherSlots == DOMAIN Parser(rs.g).actions \ {CompletedSlot}

\* C32: a value consumed by one slot never removes a choice candidate of a different
\* slot of the same grammar, also when the two slots store into the same destination:
\* every choice that is excluded at the completed slot was consumed by that slot
C32_ConsumedPerSlot ==
    (SlotCompleting /\ Parser(rs.g).actions[CompletedSlot].has_choices) =>
        \A c \in ExcludedChoices : c \in ValuesConsumedBy(CompletedSlot)

\* a choice is excluded at a slot that has consumed nothing, because another slot with
\* the same destination consumed it
C32_SharedDestExcludes ==
    /\ SlotCompleting
    /\ Parser(rs.g).actions[CompletedSlot].has_choices
    /\ ValuesConsumedBy(CompletedSlot) = {}
    /\ \E c \in ExcludedChoices : \E o \in OtherSlots :
          /\ c \in ValuesConsumedBy(o)
          /\ Parser(rs.g).actions[o].dest = Parser(rs.g).actions[CompletedSlot].dest

\* ---------------------------------------------------------------------------
\* Arity of a slot (completer.py:199-230, 318-339)
\* ---------------------------------------------------------------------------

\* the step is an iteration of the replay, and Taken is its record
ReplayIterates == Replaying /\ Len(hist') = Len(hist) + 1
Taken == hist'[Len(hist')]

\* the slot state after the step: the same occurrence with one more value, or none when
\* that value was the last one the slot takes
AfterValue(state) ==
    IF ReachedMax(ConsumeCount(state)) THEN NoArgState ELSE ConsumeCount(state)

\* a value given to the flag slot: it is the active one, and it is cleared at its max
FlagSlotCounts ==
    (ReplayIterates /\ Taken.how = "flag_value") =>
        /\ IsSet(rs.flag_arg_state)
        /\ Taken.action = rs.flag_arg_state.action
        /\ rs'.flag_arg_state = AfterValue(rs.flag_arg_state)
        /\ rs'.pos_arg_state = rs.pos_arg_state

\* a value given to a positional slot: no flag slot is active, the slot is the active
\* positional slot or else the first declared one that has not been started, and it is
\* cleared at its max
PositionalSlotCounts ==
    (ReplayIterates /\ Taken.how = "pos_value") =>
        /\ ~IsSet(rs.flag_arg_state)
        /\ Taken.action = (IF IsSet(rs.pos_arg_state) THEN rs.pos_arg_state.action
                           ELSE PendingPositionals[1])
        /\ LET now == IF IsSet(rs.pos_arg_state) THEN rs.pos_arg_state
                      ELSE ArgumentState(ArgparseCompleter(rs.g), PendingPositionals[1])
           IN  rs'.pos_arg_state = AfterValue(now)

\* a token goes to the positional slots only when no flag slot is active
FlagSlotFirst ==
    (ReplayIterates /\ IsSet(rs.flag_arg_state)) =>
        Taken.how \notin {"pos_value", "pos_remainder_value", "ignored", "delegate"}

\* C33: at the head of every replay step an active slot has consumed fewer values than
\* its maximum; a slot that reaches its maximum is cleared in the step that gives it its
\* last value; a non-flag token goes to the active flag slot if there is one, else to the
\* active positional slot, else to the next positional slot in declared order
C33_ArityNeverExceeded ==
    /\ [](Replaying => NoFullSlot)
    /\ [][FlagSlotCounts /\ PositionalSlotCounts /\ FlagSlotFirst]_vars

\* a flag slot took its two values and was cleared, and the next token went to the
\* first positional slot
C33_Witness ==
    /\ Replaying
    /\ Len(hist) >= 4
    /\ hist[2].how = "flag_value"
    /\ hist[3].how = "flag_value"
    /\ hist[3].action = hist[2].action
    /\ hist[4].how = "pos_value"
    /\ hist[4].action = Head(ArgparseCompleter(rs.g).positional_actions)

\* ---------------------------------------------------------------------------
\* A remainder slot that follows a filled positional slot (completer.py:221-253)
\* ---------------------------------------------------------------------------

\* the positional slot declared after slot ai, 0 if ai is the last one
PositionalAfter(g, ai) ==
    LET ps == ArgparseCompleter(g).positional_actions
        at == {k \in DOMAIN ps : ps[k] = ai}
    IN  IF at = {} THEN 0
        ELSE LET k == CHOOSE i \in at : TRUE
             IN  IF k < Len(ps) THEN ps[k + 1] ELSE 0

\* how many of the first k steps gave a value to slot ai at the level of step k
ValuesUpTo(k, ai) ==
    Cardinality({j \in 1..k : hist[j].level = hist[k].level /\ hist[j].action = ai
                              /\ hist[j].how = "pos_value"})

\* step k gave a positional slot its last value
FilledAt(k) ==
    /\ hist[k].how = "pos_value"
    /\ LET st == ArgumentState(ArgparseCompleter(hist[k].g), hist[k].action)
       IN  st.max_kind = "int" /\ ValuesUpTo(k, hist[k].action) = st.max

\* the remainder slot that follows the slot filled at step k, 0 if none does
RemainderAfter(k) ==
    LET nxt == PositionalAfter(hist[k].g, hist[k].action)
    IN  IF nxt # 0 /\ Parser(hist[k].g).actions[nxt].nargs = REMAINDER THEN nxt ELSE 0

\* the steps at which a positional slot was filled and a remainder slot follows it
HandedOverAt == {k \in DOMAIN hist : FilledAt(k) /\ RemainderAfter(k) # 0}

\* a candidate is a flag alias of the completing grammar
IsFlagAlias(text) ==
    \E k \in DOMAIN ArgparseCompleter(rs.g).flags : ArgparseCompleter(rs.g).flags[k].flag = text

\* after step k every token is a value of the remainder slot, flags stay disabled, and
\* the partial token is not completed as a flag
RemainderTakesAll(k) ==
    /\ \A j \in DOMAIN hist : j > k =>
          /\ hist[j].level = hist[k].level
          /\ hist[j].action = RemainderAfter(k)
          /\ hist[j].how \in {"pos_value", "pos_remainder_value"}
    /\ rs.skip_remaining_flags
    /\ ~IsSet(rs.flag_arg_state)
    /\ Done => /\ out_kind # "flags"
               /\ \A i \in DOMAIN completions : ~IsFlagAlias(completions[i].text)

\* C34: when a positional slot reaches its maximum and the next positional slot is the
\* remainder slot, flags are disabled from that point on: every later token, also one
\* that begins with the prefix character, is consumed by the remainder slot, and no flag
\* alias is offered for the partial token
C34_RemainderAfterFilledSlot ==
    [](cpc # "idle" => \A k \in HandedOverAt : RemainderTakesAll(k))

\* after the hand-over a token that names a flag went to the remainder slot, and the
\* partial token begins with the prefix character
C34_Witness ==
    /\ Done
    /\ HandedOverAt # {}
    /\ rs.text # <<>>
    /\ rs.text[1] = "-"
    /\ \E k \in HandedOverAt : \E j \in DOMAIN hist :
          /\ j > k
          /\ FlagToAction(ArgparseCompleter(rs.g), hist[j].token) # 0

\* ---------------------------------------------------------------------------
\* The tree of commands (command.py:115-138, 211-223, 168-174)
\* ---------------------------------------------------------------------------

\* a command's parser has at most one dispatch slot
OneDispatchSlot == \A i \in DOMAIN commands : Cardinality(Slots(commands[i].parser)) <= 1

\* the commands whose parser hangs in a dispatch slot of command p
AddedTo(p) ==
    {c.parser : c \in UNION {commands[p].parser.actions[k].choices : k \in Slots(commands[p].parser)}}

\* the _parent of a command made by add_subcommand is the command it was added to, under
\* its name, and every subcommand of a command hangs in the one slot of its parser
ParentIsAdder ==
    \A i \in DOMAIN commands :
        LET p == commands[i]._parent
        IN  /\ p = 0 <=> (\A q \in DOMAIN commands : i \notin AddedTo(q))
            /\ p # 0 =>
                 /\ p \in DOMAIN commands
                 /\ i \in AddedTo(p)
                 /\ \A q \in DOMAIN commands \ {p} : i \notin AddedTo(q)
                 /\ \E k \in Slots(commands[p].parser) :
                        [name |-> commands[i].cmd_name, parser |-> i]
                            \in commands[p].parser.actions[k].choices

\* how many _parent links lead from command i to a root, -1 if more than fuel
RECURSIVE StepsToRoot(_, _)
StepsToRoot(i, fuel) ==
    IF commands[i]._parent = 0 THEN 0
    ELSE IF fuel = 0 THEN 0 - 1
    ELSE LET up == StepsToRoot(commands[i]._parent, fuel - 1)
         IN  IF up < 0 THEN up ELSE up + 1

\* following _parent from any command reaches a root, never a cycle
IsForest == \A i \in DOMAIN commands : StepsToRoot(i, Len(commands)) >= 0

\* no step changes the _parent or the name of a command, or removes a command
ParentsFixed ==
    /\ Len(commands') >= Len(commands)
    /\ \A i \in DOMAIN commands :
          /\ commands'[i]._parent = commands[i]._parent
          /\ commands'[i].cmd_name = commands[i].cmd_name

\* a decorator holds the dispatch slot of the command it was made by
DecoratorsHoldSlot ==
    \A d \in decorators : Slots(commands[d.self].parser) = {d.action}

\* C37: after any sequence of add_subcommand calls every command's parser has at most
\* one dispatch slot, which all its subcommands share; every command made by
\* add_subcommand has as _parent the command it was added to; parent links never
\* change; and following _parent from any command reaches a root, never a cycle
C37_CommandsFormTree ==
    /\ [](OneDispatchSlot /\ ParentIsAdder /\ IsForest /\ DecoratorsHoldSlot)
    /\ [][ParentsFixed]_vars

\* a root with two subcommands in one slot, one of which has a subcommand itself
C37_Witness ==
    /\ Len(commands) = 4
    /\ \E p \in DOMAIN commands :
          /\ commands[p]._parent = 0
          /\ Cardinality(AddedTo(p)) = 2
          /\ \E c \in AddedTo(p) : AddedTo(c) # {}

====
